---- MODULE Spec2Model ----
(***************************************************************************)
(* routetype: a route table (path -> method -> input/output schema) that   *)
(* drives an Express router (createTypedRouter) and a fetch client         *)
(* (TypedClient).  The model follows src/src/router.ts and the client of   *)
(* src/unnamed/part_001.                                                   *)
(*                                                                         *)
(* JavaScript values are modelled as follows.  A scalar is a record        *)
(* [t |-> tag, v |-> text] whose text is a sequence of one-character       *)
(* strings (a number is its decimal text under tag "num").  An object is a *)
(* function from its keys to values; the keys "t" and "v" are never used   *)
(* as object keys.                                                         *)
(***************************************************************************)
EXTENDS Integers, Sequences, FiniteSets, TLC

----------------------------------------------------------------------------
(* Values *)

Str(s) == [t |-> "str", v |-> s]
Num(s) == [t |-> "num", v |-> s]
Bool(s) == [t |-> "bool", v |-> s]
Undefined == [t |-> "undef", v |-> <<>>]
EmptyObj == [k \in {} |-> Undefined]

IsLeaf(x) == "t" \in DOMAIN x
IsObject(x) == ~IsLeaf(x)
Keys(o) == DOMAIN o
Has(o, k) == IsObject(o) /\ k \in DOMAIN o

\* { [k]: x }
Obj1(k, x) == [i \in {k} |-> x]
\* Object.assign(a, b) for objects a and b: the keys of b win.
ObjectAssign(a, b) ==
  [k \in DOMAIN a \cup DOMAIN b |-> IF k \in DOMAIN b THEN b[k] ELSE a[k]]
\* a with key k set to x
Put(a, k, x) == ObjectAssign(a, Obj1(k, x))

Digits == {"0", "1", "2", "3", "4", "5", "6", "7", "8", "9"}
IsNumeric(s) == Len(s) > 0 /\ \A i \in 1..Len(s) : s[i] \in Digits

----------------------------------------------------------------------------
(* Schemas and the validation engine (Value.Check, Value.Errors,           *)
(* Value.Decode) as the router uses them.                                  *)

TString(min) == [kind |-> "string", minLength |-> min]
TNumber == [kind |-> "number"]
TBoolean == [kind |-> "boolean"]
\* props: a sequence of [key, schema, optional] in declaration order
TObject(props) == [kind |-> "object", props |-> props]
Prop(k, s) == [key |-> k, schema |-> s, optional |-> FALSE]
Opt(k, s) == [key |-> k, schema |-> s, optional |-> TRUE]
\* Type.Transform(Type.String()).Decode(text => number): throws on text that
\* is not numeric.
TNumericString == [kind |-> "transform", inner |-> TString(0)]

RECURSIVE Check(_, _)
Check(schema, x) ==
  CASE schema.kind = "string" ->
         IsLeaf(x) /\ x.t = "str" /\ Len(x.v) >= schema.minLength
    [] schema.kind = "number" -> IsLeaf(x) /\ x.t = "num"
    [] schema.kind = "boolean" -> IsLeaf(x) /\ x.t = "bool"
    [] schema.kind = "transform" -> Check(schema.inner, x)
    [] schema.kind = "object" ->
         /\ IsObject(x)
         /\ \A i \in 1..Len(schema.props) :
              LET p == schema.props[i] IN
              IF p.key \in DOMAIN x /\ x[p.key] # Undefined
                THEN Check(p.schema, x[p.key])
                ELSE p.optional

Err(type, path, message) == [type |-> type, path |-> path, message |-> message]

RECURSIVE Errors(_, _, _)
RECURSIVE PropErrors(_, _, _, _)
\* the errors of the properties i.. of an object schema, in order
PropErrors(schema, x, path, i) ==
  IF i > Len(schema.props) THEN <<>>
  ELSE LET p == schema.props[i]
           here == IF p.key \in DOMAIN x THEN x[p.key] ELSE Undefined
           own == IF p.optional
                    THEN IF here # Undefined
                           THEN Errors(p.schema, here, Append(path, p.key))
                           ELSE <<>>
                    ELSE Errors(p.schema, here, Append(path, p.key))
       IN own \o PropErrors(schema, x, path, i + 1)

RECURSIVE RequiredErrors(_, _, _, _)
RequiredErrors(schema, x, path, i) ==
  IF i > Len(schema.props) THEN <<>>
  ELSE LET p == schema.props[i]
           own == IF ~p.optional /\ p.key \notin DOMAIN x
                    THEN <<Err("ObjectRequiredProperty", Append(path, p.key),
                               "Expected required property")>>
                    ELSE <<>>
       IN own \o RequiredErrors(schema, x, path, i + 1)

Errors(schema, x, path) ==
  CASE schema.kind = "string" ->
         IF ~(IsLeaf(x) /\ x.t = "str")
           THEN <<Err("String", path, "Expected string")>>
         ELSE IF Len(x.v) < schema.minLength
           THEN <<Err("StringMinLength", path,
                      "Expected string length greater or equal to minLength")>>
         ELSE <<>>
    [] schema.kind = "number" ->
         IF IsLeaf(x) /\ x.t = "num" THEN <<>>
         ELSE <<Err("Number", path, "Expected number")>>
    [] schema.kind = "boolean" ->
         IF IsLeaf(x) /\ x.t = "bool" THEN <<>>
         ELSE <<Err("Boolean", path, "Expected boolean")>>
    [] schema.kind = "transform" -> Errors(schema.inner, x, path)
    [] schema.kind = "object" ->
         IF IsLeaf(x) THEN <<Err("Object", path, "Expected object")>>
         ELSE RequiredErrors(schema, x, path, 1) \o PropErrors(schema, x, path, 1)

\* Value.Decode throws when a codec of the schema throws on its value.
RECURSIVE DecodeThrows(_, _)
DecodeThrows(schema, x) ==
  CASE schema.kind = "transform" -> ~IsNumeric(x.v)
    [] schema.kind = "object" ->
         \E i \in 1..Len(schema.props) :
           LET p == schema.props[i] IN
           /\ p.key \in DOMAIN x
           /\ x[p.key] # Undefined
           /\ DecodeThrows(p.schema, x[p.key])
    [] OTHER -> FALSE

\* Value.Decode of a value that passes Check and on which no codec throws
RECURSIVE Decode(_, _)
Decode(schema, x) ==
  CASE schema.kind = "transform" -> Num(x.v)
    [] schema.kind = "object" ->
         LET known == {schema.props[i].key : i \in 1..Len(schema.props)}
             SchemaOf(k) ==
               (CHOOSE i \in 1..Len(schema.props) : schema.props[i].key = k)
         IN [k \in DOMAIN x |->
               IF k \in known /\ x[k] # Undefined
                 THEN Decode(schema.props[SchemaOf(k)].schema, x[k])
                 ELSE x[k]]
    [] OTHER -> x

----------------------------------------------------------------------------
(* The route table, the handlers and the router options that                *)
(* createTypedRouter is given.                                              *)

Chars_1 == <<"1">>
Chars_a == <<"a">>
P_users == <<"/", "u">>
P_user == <<"/", "u", "/", ":", "i", "d">>
P_search == <<"/", "s">>
P_profile == <<"/", "p">>
P_admin == <<"/", "a">>
P_open == <<"/", "o">>

UserOut == TObject(<<Prop("id", TString(0))>>)
CountOut == TObject(<<Prop("id", TNumber)>>)

\* middleware: the entries [name, config] of the route's middleware map in its
\* iteration order (MwMap), or no map at all (NoMw)
MwMap(entries) == [present |-> TRUE, entries |-> entries]
NoMw == [present |-> FALSE, entries |-> <<>>]
Def(input, output, middleware) ==
  [input |-> input, output |-> output, middleware |-> middleware]
Mw(name, config) == [name |-> name, config |-> config]
Route(path, method, def) == [path |-> path, method |-> method, def |-> def]

\* Object.entries(routes), flattened to (path, method, routeConfig) in order
RouteTable ==
  << Route(P_users, "get",
           Def(TObject(<<Opt("limit", TNumber)>>), UserOut, NoMw)),
     Route(P_users, "post",
           Def(TObject(<<Prop("name", TString(1)), Prop("email", TString(0))>>),
               UserOut, NoMw)),
     Route(P_user, "get",
           Def(TObject(<<Prop("params", TObject(<<Prop("id", TString(0))>>))>>),
               UserOut, NoMw)),
     Route(P_user, "put",
           Def(TObject(<<Prop("params", TObject(<<Prop("id", TNumericString)>>)),
                         Prop("body", TObject(<<Prop("name", TString(1))>>))>>),
               UserOut, NoMw)),
     Route(P_user, "patch", Undefined),
     Route(P_user, "delete",
           Def(TObject(<<Prop("params", TObject(<<Prop("id", TString(0))>>))>>),
               UserOut, NoMw)),
     Route(P_search, "get",
           Def(TObject(<<Prop("query", TObject(<<Prop("q", TString(1))>>))>>),
               UserOut, NoMw)),
     Route(P_profile, "get",
           Def(TObject(<<>>), UserOut, MwMap(<<Mw("auth", "true")>>))),
     Route(P_admin, "get",
           Def(TObject(<<>>), UserOut,
               MwMap(<<Mw("rateLimit", "limits"), Mw("audit", "true"),
                       Mw("cache", "undefined"), Mw("auth", "admin")>>))),
     Route(P_open, "get",
           Def(TObject(<<>>), CountOut, MwMap(<<Mw("auth", "false")>>))) >>

RouteIds == 1..Len(RouteTable)
Defined == {i \in RouteIds : RouteTable[i].def # Undefined}

\* handlers[path]?.[method]: a function, nothing ("absent", undefined), null,
\* or a truthy value that is no function
AllFunctions == [i \in RouteIds |-> "function"]
\* options.middleware: the names of the factory map in its own order, or no
\* map; options.errorHandler: configured or not; options.basePath
Factories(names) == [present |-> TRUE, names |-> names]
NoFactories == [present |-> FALSE, names |-> <<>>]
Options(middleware, errorHandler, basePath) ==
  [middleware |-> middleware, errorHandler |-> errorHandler, basePath |-> basePath]
Setup(hs, opts) == [handlers |-> hs, options |-> opts]
BaseV1 == <<"/", "v", "1">>

\* the (handlers, options) pairs createTypedRouter is called with
RouterSetups ==
  { Setup(AllFunctions, Options(NoFactories, FALSE, <<>>)),
    Setup(AllFunctions, Options(Factories(<<"auth", "rateLimit">>), TRUE, <<>>)),
    Setup([AllFunctions EXCEPT ![2] = "absent", ![8] = "absent"],
          Options(Factories(<<"auth", "rateLimit">>), FALSE, BaseV1)),
    Setup([AllFunctions EXCEPT ![3] = "notFunction", ![4] = "absent", ![6] = "null"],
          Options(Factories(<<"cache", "auth">>), TRUE, BaseV1)),
    Setup([AllFunctions EXCEPT ![2] = "absent", ![7] = "notFunction"],
          Options(NoFactories, TRUE, <<>>)) }

SeqHas(s, x) == \E i \in 1..Len(s) : s[i] = x

----------------------------------------------------------------------------
(* createTypedRouter *)

NumSlots == 1
Reqs == 1..NumSlots
\* the requests in flight at once when their steps interleave
InFlight == 2
Flights == 1..InFlight
Slots == 1..(IF NumSlots > InFlight THEN NumSlots ELSE InFlight)

VARIABLES
  created,      \* createTypedRouter has returned
  handlers,     \* the handlers argument: route -> handler kind
  options,      \* the options argument
  registered,   \* what the router holds, in registration order
  factoryCalls, \* the factory invocations so far, in order
  req,          \* per request: the Express request object
  pc,           \* per request: "idle", "chain", "awaiting", "error", "done"
  idx,          \* per request: index in the chain of the step to run next
  trace,        \* per request: the steps that have run, in order
  responses,    \* per request: the responses sent, in order
  calls,        \* per request: the handler invocations [input, context]
  forwarded,    \* per request: the errors passed to next(error)
  log,          \* per request: what console.error was given
  call,         \* per request: the client call (method, path, input) behind it
  wire,         \* per request: the HTTP request the client has issued
  client,       \* the TypedClient: its baseUrl and options, once constructed
  cpc,          \* per call: "idle", "headers", "fetch", "returned", "rejected"
  events,       \* per call: what request() did and how it settled, in order
  response,     \* per call: the response fetch resolved with
  headerCalls   \* the invocations of options.headers so far

serverVars == <<created, handlers, options, registered, factoryCalls,
                req, pc, idx, trace, responses, calls, forwarded, log>>
callVars == <<client, cpc, events, response, headerCalls>>
clientVars == <<call, wire, callVars>>
NoCall == [route |-> 0]
NoWire == [method |-> "none"]
NoClient == [baseUrl |-> <<>>, constructed |-> FALSE]
NoResponse == [status |-> 0]

Step(kind, route, name, config, handler) ==
  [kind |-> kind, route |-> route, name |-> name, config |-> config,
   handler |-> handler]

\* router.ts:30-37: the entries of the route's middleware map that get a step
EligibleBuggy(mw, factories) ==
  IF mw.present /\ factories.present
    THEN SelectSeq(mw.entries, LAMBDA e : SeqHas(factories.names, e.name))
    ELSE <<>>
EligibleTruthy(mw, factories) ==
  IF mw.present /\ factories.present
    THEN SelectSeq(mw.entries,
                   LAMBDA e : e.config \notin {"undefined", "false", "null", "0", ""}
                                /\ SeqHas(factories.names, e.name))
    ELSE <<>>
Eligible(mw, factories) ==
  IF mw.present /\ factories.present
    THEN SelectSeq(mw.entries,
                   LAMBDA e : e.config # "undefined" /\ SeqHas(factories.names, e.name))
    ELSE <<>>

\* the entries taken in the order of the factory map instead
RECURSIVE ByFactoryOrder(_, _)
ByFactoryOrder(mw, names) ==
  IF names = <<>> THEN <<>>
  ELSE SelectSeq(mw.entries,
                 LAMBDA e : e.config # "undefined" /\ e.name = Head(names))
       \o ByFactoryOrder(mw, Tail(names))

\* middlewares after the loop of router.ts:31-36: factory(middlewareConfig)
\* for each eligible entry
ComposeMiddlewareFactoryOrder(i, mw, factories) ==
  LET es == IF mw.present /\ factories.present
              THEN ByFactoryOrder(mw, factories.names) ELSE <<>>
  IN [j \in 1..Len(es) |-> Step("mw", i, es[j].name, es[j].config, "none")]
ComposeMiddleware(i, mw, factories) ==
  LET es == Eligible(mw, factories)
  IN [j \in 1..Len(es) |-> Step("mw", i, es[j].name, es[j].config, "none")]

\* router.ts:40-49
ChainValidationLast(i, hs, opts) ==
  ComposeMiddleware(i, RouteTable[i].def.middleware, opts.middleware)
    \o << Step("handler", i, "handler", "none", hs[i]),
          Step("validation", i, "validation", "none", "none") >>
ChainValidationFirst(i, hs, opts) ==
  << Step("validation", i, "validation", "none", "none") >>
    \o ComposeMiddleware(i, RouteTable[i].def.middleware, opts.middleware)
    \o << Step("handler", i, "handler", "none", hs[i]) >>
Chain(i, hs, opts) ==
  ComposeMiddleware(i, RouteTable[i].def.middleware, opts.middleware)
    \o << Step("validation", i, "validation", "none", "none"),
          Step("handler", i, "handler", "none", hs[i]) >>

\* the registration at the bare path, basePath left out
RegistrationAtPath(i, hs, opts) ==
  [method |-> RouteTable[i].method,
   path |-> RouteTable[i].path,
   route |-> i,
   chain |-> Chain(i, hs, opts)]
\* router.ts:24-25, 52: router[httpMethod](basePath + path, ...middlewares)
Registration(i, hs, opts) ==
  [method |-> RouteTable[i].method,
   path |-> opts.basePath \o RouteTable[i].path,
   route |-> i,
   chain |-> Chain(i, hs, opts)]

RECURSIVE RegisterFrom(_, _, _)
\* the loop of router.ts:20-54 from route i on
RegisterFrom(i, hs, opts) ==
  IF i > Len(RouteTable) THEN <<>>
  ELSE (IF RouteTable[i].def = Undefined THEN <<>>
        ELSE <<Registration(i, hs, opts)>>)
       \o RegisterFrom(i + 1, hs, opts)

RECURSIVE FactoryCallsFrom(_, _)
FactoryCallsFrom(i, opts) ==
  IF i > Len(RouteTable) THEN <<>>
  ELSE (IF RouteTable[i].def = Undefined THEN <<>>
        ELSE LET es == Eligible(RouteTable[i].def.middleware, opts.middleware)
             IN [j \in 1..Len(es) |->
                   [route |-> i, name |-> es[j].name, config |-> es[j].config]])
       \o FactoryCallsFrom(i + 1, opts)

\* router.use(errorHandler)
ErrorHandlerRegistration ==
  [method |-> "use", path |-> <<>>, route |-> 0, chain |-> <<>>]

NoReq == [route |-> 0]

Init ==
  /\ created = FALSE
  /\ handlers = AllFunctions
  /\ options = [middleware |-> NoFactories, errorHandler |-> FALSE, basePath |-> <<>>]
  /\ registered = <<>>
  /\ factoryCalls = <<>>
  /\ req = [r \in Slots |-> NoReq]
  /\ pc = [r \in Slots |-> "idle"]
  /\ idx = [r \in Slots |-> 0]
  /\ trace = [r \in Slots |-> <<>>]
  /\ responses = [r \in Slots |-> <<>>]
  /\ calls = [r \in Slots |-> <<>>]
  /\ forwarded = [r \in Slots |-> <<>>]
  /\ log = [r \in Slots |-> <<>>]
  /\ call = [r \in Slots |-> NoCall]
  /\ wire = [r \in Slots |-> NoWire]
  /\ client = NoClient
  /\ cpc = [r \in Slots |-> "idle"]
  /\ events = [r \in Slots |-> <<>>]
  /\ response = [r \in Slots |-> NoResponse]
  /\ headerCalls = 0

\* createTypedRouter(routes, handlers, options), (handlers, options) being
\* one of setups
CreateTypedRouterWith(setups) ==
  /\ ~created
  /\ \E setup \in setups :
       LET hs == setup.handlers
           opts == setup.options
       IN
       /\ handlers' = hs
       /\ options' = opts
       /\ registered' = RegisterFrom(1, hs, opts)
                          \o (IF opts.errorHandler
                                THEN <<ErrorHandlerRegistration>> ELSE <<>>)
       /\ factoryCalls' = FactoryCallsFrom(1, opts)
  /\ created' = TRUE
  /\ UNCHANGED <<req, pc, idx, trace, responses, calls, forwarded, log>>
  /\ UNCHANGED clientVars
CreateTypedRouter == CreateTypedRouterWith(RouterSetups)

----------------------------------------------------------------------------
(* Requests *)

S(text) == Str(<<text>>)
Id1 == Obj1("id", Str(Chars_1))
IdA == Obj1("id", Str(Chars_a))
QA == Obj1("q", Str(Chars_a))
NameA == Obj1("name", Str(Chars_a))
NameEmpty == Obj1("name", Str(<<>>))
EmailE == Obj1("email", Str(<<"e">>))

\* the mock user database of the auth example
Users == [k \in {"token-123"} |-> Obj1("id", Str(Chars_1))]

Upper(method) ==
  CASE method = "get" -> "GET" [] method = "post" -> "POST"
    [] method = "put" -> "PUT" [] method = "patch" -> "PATCH"
    [] method = "delete" -> "DELETE"
    [] OTHER -> "USE"

Request(i, params, query, body, token) ==
  [route |-> i, method |-> Upper(RouteTable[i].method),
   params |-> params, query |-> query, body |-> body, token |-> token,
   user |-> Undefined, remaining |-> Undefined,
   validatedInput |-> Undefined, outputSchema |-> Undefined]

\* What Express hands to the chain of route i: the matched path parameters,
\* the parsed query string, the parsed JSON body (Undefined when there is
\* none) and the Authorization token.
RequestsFor(i) ==
  CASE i = 1 -> { Request(i, EmptyObj, q, Undefined, "none") :
                    q \in {EmptyObj, Obj1("limit", Str(Chars_1))} }
    [] i = 2 -> { Request(i, EmptyObj, EmptyObj, b, "none") :
                    b \in {Undefined, EmptyObj, ObjectAssign(NameA, EmailE),
                           ObjectAssign(NameEmpty, EmailE), NameA,
                           ObjectAssign(ObjectAssign(NameA, EmailE),
                                        Obj1("params", Id1))} }
                  \cup {Request(i, EmptyObj, QA, ObjectAssign(NameA, EmailE), "none")}
    [] i = 3 -> { Request(i, Id1, q, Undefined, "none") : q \in {EmptyObj, QA} }
    [] i = 4 -> { Request(i, p, EmptyObj, b, "none") :
                    p \in {Id1, IdA}, b \in {Undefined, NameA, NameEmpty} }
    [] i = 6 -> { Request(i, Id1, EmptyObj, b, "none") : b \in {Undefined, NameA} }
    [] i = 7 -> { Request(i, EmptyObj, q, Undefined, "none") :
                    q \in {EmptyObj, QA, Obj1("q", Str(<<>>))} }
    [] i = 8 -> { Request(i, EmptyObj, EmptyObj, Undefined, t) :
                    t \in {"none", "bad", "token-123"} }
    [] i = 9 -> { Request(i, EmptyObj, EmptyObj, Undefined, t) :
                    t \in {"none", "token-123"} }
    [] i = 10 -> { Request(i, EmptyObj, EmptyObj, Undefined, "none") }

\* router.ts:138-164
ExtractInputAlwaysNest(request) ==
  LET withParams == IF Keys(request.params) # {}
                      THEN Obj1("params", request.params) ELSE EmptyObj
      withQuery == IF Keys(request.query) # {}
                     THEN Put(withParams, "query", request.query) ELSE withParams
  IN IF request.method \in {"POST", "PUT", "PATCH"} /\ request.body # Undefined
       THEN Put(withQuery, "body", request.body)
       ELSE withQuery
ExtractInput(request) ==
  LET withParams == IF Keys(request.params) # {}
                      THEN Obj1("params", request.params) ELSE EmptyObj
      withQuery == IF Keys(request.query) # {}
                     THEN Put(withParams, "query", request.query) ELSE withParams
      withBody ==
        IF request.method \in {"POST", "PUT", "PATCH"} /\ request.body # Undefined
          THEN IF Has(withQuery, "params") \/ Has(withQuery, "query")
                 THEN Put(withQuery, "body", request.body)
                 ELSE ObjectAssign(withQuery, request.body)
          ELSE withQuery
  IN IF Keys(withBody) # {} THEN withBody ELSE EmptyObj

ChainOf(i) ==
  LET k == CHOOSE k \in 1..Len(registered) : registered[k].route = i
  IN registered[k].chain

Response(status, body, by) == [status |-> status, body |-> body, by |-> by]
ErrorBody(text) == Obj1("error", S(text))

\* Express matches a request, one of requests, against a registered route
\* and starts its chain.
ArriveWith(r, requests) ==
  /\ created
  /\ UNCHANGED clientVars
  /\ pc[r] = "idle"
  /\ \E request \in requests :
       req' = [req EXCEPT ![r] = request]
  /\ pc' = [pc EXCEPT ![r] = "chain"]
  /\ idx' = [idx EXCEPT ![r] = 1]
  /\ UNCHANGED <<created, handlers, options, registered, factoryCalls,
                 trace, responses, calls, forwarded, log>>
Arrive(r) == ArriveWith(r, UNION {RequestsFor(i) : i \in Defined})

\* The response has gone out: the request and everything kept for it are
\* discarded, and the slot serves the next request.
Discard(r) ==
  /\ pc[r] = "done"
  /\ req' = [req EXCEPT ![r] = NoReq]
  /\ pc' = [pc EXCEPT ![r] = "idle"]
  /\ idx' = [idx EXCEPT ![r] = 0]
  /\ trace' = [trace EXCEPT ![r] = <<>>]
  /\ responses' = [responses EXCEPT ![r] = <<>>]
  /\ calls' = [calls EXCEPT ![r] = <<>>]
  /\ forwarded' = [forwarded EXCEPT ![r] = <<>>]
  /\ log' = [log EXCEPT ![r] = <<>>]
  /\ call' = [call EXCEPT ![r] = NoCall]
  /\ wire' = [wire EXCEPT ![r] = NoWire]
  /\ UNCHANGED <<created, handlers, options, registered, factoryCalls>>
  /\ UNCHANGED callVars

CurrentStep(r) == ChainOf(req[r].route)[idx[r]]
\* r is in its chain and the next step to run is of this kind
AtStep(r, kind) ==
  /\ pc[r] = "chain"
  /\ idx[r] \in 1..Len(ChainOf(req[r].route))
  /\ CurrentStep(r).kind = kind

\* the response is sent and the chain goes on (a missing return)
RespondAndCallNext(r, status, body, by) ==
  /\ responses' = [responses EXCEPT ![r] = Append(@, Response(status, body, by))]
  /\ idx' = [idx EXCEPT ![r] = @ + 1]
  /\ UNCHANGED pc

\* return res.status(status).json(body): the step sends and does not call next
Respond(r, status, body, by) ==
  /\ responses' = [responses EXCEPT ![r] = Append(@, Response(status, body, by))]
  /\ pc' = [pc EXCEPT ![r] = "done"]
  /\ UNCHANGED idx

\* next()
CallNext(r) ==
  /\ idx' = [idx EXCEPT ![r] = @ + 1]
  /\ UNCHANGED <<pc, responses>>

\* the catch block answers by itself as well as forwarding
ForwardAndRespond(r, error) ==
  /\ forwarded' = [forwarded EXCEPT ![r] = Append(@, error)]
  /\ responses' = [responses EXCEPT ![r] =
                     Append(@, Response(500, ErrorBody("Internal server error"), "catch"))]
  /\ pc' = [pc EXCEPT ![r] = "error"]
  /\ UNCHANGED idx

\* the catch block drops the error
ForwardDropped(r, error) == UNCHANGED <<forwarded, pc, idx, responses>>
\* next(error)
Forward(r, error) ==
  /\ forwarded' = [forwarded EXCEPT ![r] = Append(@, error)]
  /\ pc' = [pc EXCEPT ![r] = "error"]
  /\ UNCHANGED <<idx, responses>>

Ran(r, what) == trace' = [trace EXCEPT ![r] = Append(@, what)]

\* the step authMiddleware(required) returns (auth example)
AuthStep(r) ==
  /\ AtStep(r, "mw")
  /\ UNCHANGED clientVars
  /\ CurrentStep(r).name = "auth"
  /\ Ran(r, "auth")
  /\ LET required == CurrentStep(r).config \notin {"false", "null", "0", ""}
         token == req[r].token
     IN IF ~required
          THEN CallNext(r) /\ UNCHANGED req
        ELSE IF token = "none"
          THEN Respond(r, 401, ErrorBody("No token provided"), "auth")
               /\ UNCHANGED req
        ELSE IF token \notin DOMAIN Users
          THEN Respond(r, 401, ErrorBody("Invalid token"), "auth")
               /\ UNCHANGED req
        ELSE /\ req' = [req EXCEPT ![r].user = Users[token]]
             /\ CallNext(r)
  /\ UNCHANGED <<created, handlers, options, registered, factoryCalls,
                 calls, forwarded, log>>

\* the step the rateLimit factory returns: it lets the request through with
\* req.remaining set, answers 429, or throws
RateLimitStep(r) ==
  /\ AtStep(r, "mw")
  /\ UNCHANGED clientVars
  /\ CurrentStep(r).name = "rateLimit"
  /\ Ran(r, "rateLimit")
  /\ \/ /\ req' = [req EXCEPT ![r].remaining = Num(Chars_1)]
        /\ CallNext(r)
        /\ UNCHANGED forwarded
     \/ /\ Respond(r, 429, ErrorBody("Too many requests"), "rateLimit")
        /\ UNCHANGED <<req, forwarded>>
     \/ /\ Forward(r, [message |-> "rate limiter failed", from |-> "rateLimit"])
        /\ UNCHANGED req
  /\ UNCHANGED <<created, handlers, options, registered, factoryCalls, calls, log>>

DetailsFirstOnly(errors) ==
  [j \in 1..(IF Len(errors) > 0 THEN 1 ELSE 0) |->
     [path |-> errors[j].path, message |-> errors[j].message]]

\* errors.map((e) => ({ path: e.path, message: e.message }))
Details(errors) ==
  [j \in 1..Len(errors) |-> [path |-> errors[j].path, message |-> errors[j].message]]

ValidatedInputRaw(schema, input) == input
\* extendedReq.validatedInput = Value.Decode(inputSchema, input)
ValidatedInput(schema, input) == Decode(schema, input)

ValidationFailed(errors) ==
  [error |-> S("Validation failed"), details |-> Details(errors)]

\* the step createValidationMiddleware returns (router.ts:65-92)
ValidationMiddleware(r) ==
  /\ AtStep(r, "validation")
  /\ UNCHANGED clientVars
  /\ Ran(r, "validation")
  /\ LET def == RouteTable[CurrentStep(r).route].def
         input == ExtractInput(req[r])
     IN IF ~Check(def.input, input)
          THEN /\ Respond(r, 400, ValidationFailed(Errors(def.input, input, <<>>)),
                          "validation")
               /\ UNCHANGED <<req, forwarded>>
        ELSE IF DecodeThrows(def.input, input)
          THEN /\ Forward(r, [message |-> "Unable to decode value", from |-> "validation"])
               /\ UNCHANGED req
        ELSE /\ req' = [req EXCEPT ![r].validatedInput = ValidatedInput(def.input, input),
                                   ![r].outputSchema = def.output]
             /\ CallNext(r)
             /\ UNCHANGED forwarded
  /\ UNCHANGED <<created, handlers, options, registered, factoryCalls, calls, log>>

\* the promise handler(validatedInput, req) returns: not settled yet,
\* fulfilled with a result, or rejected with an error
Pending == [kind |-> "pending", value |-> Undefined]
Fulfilled(result) == [kind |-> "fulfilled", value |-> result]
Rejected(error) == [kind |-> "rejected", value |-> error]
\* the handler's promise settles: the outcome of the invocation being awaited
Settle(r, outcome) ==
  calls' = [calls EXCEPT ![r][Len(calls[r])].outcome = outcome]

HandlerLookedUp(r) == handlers[CurrentStep(r).route]
\* the handler createHandlerMiddleware was given when the chain was built
\* (router.ts:42-43, 96)
StepHandler(r) == CurrentStep(r).handler

StepInputShared(r) ==
  req[CHOOSE q \in Slots : pc[q] # "idle" /\ \A p \in Slots : pc[p] # "idle" => q <= p]
    .validatedInput
\* const input = extendedReq.validatedInput (router.ts:108-111)
StepInput(r) == req[r].validatedInput

HandlerDefined(handler) == handler # "absent"
\* !handler is false (router.ts:103)
HandlerTruthy(handler) == handler \notin {"absent", "null"}

\* the step createHandlerMiddleware returns, up to its await
\* (router.ts:101-122)
HandlerMiddleware(r) ==
  /\ AtStep(r, "handler")
  /\ UNCHANGED clientVars
  /\ Ran(r, "handler")
  /\ LET handler == StepHandler(r)
     IN IF ~HandlerTruthy(handler)
          THEN /\ Respond(r, 501, ErrorBody("Not implemented"), "handler")
               /\ UNCHANGED calls
        ELSE IF handler # "function"
          THEN /\ Respond(r, 501, ErrorBody("Handler not a function"), "handler")
               /\ UNCHANGED calls
        ELSE /\ calls' = [calls EXCEPT ![r] =
                            Append(@, [input |-> StepInput(r),
                                       context |-> req[r],
                                       outcome |-> Pending])]
             /\ pc' = [pc EXCEPT ![r] = "awaiting"]
             /\ UNCHANGED <<idx, responses>>
  /\ UNCHANGED <<created, handlers, options, registered, factoryCalls,
                 req, forwarded, log>>

\* what a handler may return
Results ==
  { Obj1("id", Str(Chars_1)),
    ObjectAssign(Obj1("id", Str(Chars_1)), Obj1("secret", Str(Chars_a))),
    Obj1("id", Num(Chars_1)),
    EmptyObj }
\* what a handler may throw
HandlerErrors == {[message |-> "User not found", from |-> "handler"]}

InternalServerErrorWithDetails ==
  ObjectAssign(ErrorBody("Internal server error"),
               Obj1("details", S("Expected string")))
\* the body of router.ts:127
InternalServerError == ErrorBody("Internal server error")

SendResultWrapped(r, result) == Respond(r, 200, Obj1("data", result), "handler")
\* res.json(result) (router.ts:131): status 200, the result as the body
SendResult(r, result) == Respond(r, 200, result, "handler")

\* the rest of the step after the handler's promise settles
\* (router.ts:120-134)
HandlerSettles(r) ==
  /\ pc[r] = "awaiting"
  /\ UNCHANGED clientVars
  /\ LET output == RouteTable[CurrentStep(r).route].def.output
     IN \/ \E result \in Results :
             /\ Settle(r, Fulfilled(result))
             /\ IF ~Check(output, result)
                  THEN /\ log' = [log EXCEPT ![r] =
                                    Append(@, [text |-> "Response validation failed:",
                                               errors |-> Errors(output, result, <<>>)])]
                       /\ Respond(r, 500, InternalServerError, "handler")
                       /\ UNCHANGED forwarded
                  ELSE /\ SendResult(r, result)
                       /\ UNCHANGED <<forwarded, log>>
        \/ \E error \in HandlerErrors :
             /\ Settle(r, Rejected(error))
             /\ Forward(r, error)
             /\ UNCHANGED log
  /\ UNCHANGED <<created, handlers, options, registered, factoryCalls,
                 req, trace>>

\* options.errorHandler, registered by router.use (router.ts:57-59), as the
\* example configures it: status 500 and the error's message
ErrorHandler(r) ==
  /\ pc[r] = "error"
  /\ UNCHANGED clientVars
  /\ options.errorHandler
  /\ Ran(r, "errorHandler")
  /\ Respond(r, 500, ErrorBody(forwarded[r][Len(forwarded[r])].message), "errorHandler")
  /\ UNCHANGED <<created, handlers, options, registered, factoryCalls,
                 req, calls, forwarded, log>>

\* No errorHandler in the router: the error leaves the router and the host
\* application's final handler answers with its own error page.
HostErrorPage == S("<pre>Internal Server Error</pre>")
HostFinalHandler(r) ==
  /\ pc[r] = "error"
  /\ UNCHANGED clientVars
  /\ ~options.errorHandler
  /\ Ran(r, "host")
  /\ Respond(r, 500, HostErrorPage, "host")
  /\ UNCHANGED <<created, handlers, options, registered, factoryCalls,
                 req, calls, forwarded, log>>

ServerNext ==
  \/ CreateTypedRouter
  \/ \E r \in Reqs : Arrive(r)
  \/ \E r \in Reqs : AuthStep(r)
  \/ \E r \in Reqs : RateLimitStep(r)
  \/ \E r \in Reqs : ValidationMiddleware(r)
  \/ \E r \in Reqs : HandlerMiddleware(r)
  \/ \E r \in Reqs : HandlerSettles(r)
  \/ \E r \in Reqs : ErrorHandler(r)
  \/ \E r \in Reqs : HostFinalHandler(r)
  \/ \E r \in Reqs : Discard(r)

vars == <<serverVars, clientVars>>
Next == ServerNext
Spec == Init /\ [][Next]_vars

----------------------------------------------------------------------------
(* Properties of the server *)

Live(r) == pc[r] # "idle"
DefOf(r) == RouteTable[req[r].route].def
InputOf(r) == ExtractInput(req[r])
\* the steps of the registered chain among those that have run for r
ChainTrace(r) == SelectSeq(trace[r], LAMBDA n : n \notin {"errorHandler", "host"})
Last(s) == s[Len(s)]

\* C1: a request whose extracted input fails the route's input schema is
\* answered by the validation step with status 400 and the body
\* {error: "Validation failed", details}, details holding the path and the
\* message of each schema violation in turn; the handler is not invoked and
\* the validation step does not call next.
C1_InvalidInputRejected ==
  \A r \in Reqs :
    (Live(r) /\ ~Check(DefOf(r).input, InputOf(r))) =>
      /\ calls[r] = <<>>
      /\ ~SeqHas(trace[r], "handler")
      /\ SeqHas(trace[r], "validation") =>
           LET violations == Errors(DefOf(r).input, InputOf(r), <<>>) IN
           /\ pc[r] = "done"
           /\ Last(trace[r]) = "validation"
           /\ Len(responses[r]) = 1
           /\ responses[r][1].status = 400
           /\ DOMAIN responses[r][1].body = {"error", "details"}
           /\ responses[r][1].body.error = Str(<<"Validation failed">>)
           /\ Len(responses[r][1].body.details) = Len(violations)
           /\ \A j \in 1..Len(violations) :
                responses[r][1].body.details[j] =
                  [path |-> violations[j].path, message |-> violations[j].message]

C1_Witness ==
  \E r \in Reqs :
    /\ pc[r] = "done"
    /\ Len(responses[r]) = 1
    /\ responses[r][1].status = 400
    /\ Len(responses[r][1].body.details) >= 2
    /\ Len(ChainOf(req[r].route)) > idx[r]

\* some step of the router or of the host can still act for r
StepEnabled(r) ==
  \/ ENABLED AuthStep(r)
  \/ ENABLED RateLimitStep(r)
  \/ ENABLED ValidationMiddleware(r)
  \/ ENABLED HandlerMiddleware(r)
  \/ ENABLED ErrorHandler(r)
  \/ ENABLED HostFinalHandler(r)

\* C3: a request never has two responses; a request whose processing has
\* ended has exactly one; as long as none has been sent and the handler is not
\* being awaited, a step is still due to run (so the request does not end with
\* zero responses); and once a response has been sent, no step runs or sends
\* again for that request.
C3_AtMostOneResponse ==
  \A r \in Reqs :
    /\ Len(responses[r]) <= 1
    /\ (pc[r] = "done") <=> (Len(responses[r]) = 1)
    /\ pc[r] \in {"chain", "error"} => StepEnabled(r)
    /\ Len(responses[r]) = 1 => ~StepEnabled(r) /\ ~ENABLED HandlerSettles(r)

\* a request that failed at one of the stages, answered
C3_Witness ==
  \E r \in Reqs :
    /\ pc[r] = "done"
    /\ Len(responses[r]) = 1
    /\ responses[r][1].status = 500
    /\ forwarded[r] # <<>>
    /\ SeqHas(trace[r], "handler")

\* C4: the first argument of every handler invocation is the decoded form
\* (Value.Decode) of the input extracted from the request, and an extracted
\* input that conforms to the input schema is not answered with 400.
C4_HandlerGetsDecodedInput ==
  \A r \in Reqs :
    /\ \A j \in 1..Len(calls[r]) :
         calls[r][j].input = Decode(DefOf(r).input, InputOf(r))
    /\ (Live(r) /\ Check(DefOf(r).input, InputOf(r))) =>
         \A j \in 1..Len(responses[r]) : responses[r][j].status # 400

\* the handler was given a decoded input that differs from the extracted one
C4_Witness ==
  \E r \in Reqs :
    /\ Len(calls[r]) = 1
    /\ calls[r][1].input # InputOf(r)
    /\ calls[r][1].input.params.id = Num(<<"1">>)
    /\ InputOf(r).params.id = Str(<<"1">>)

\* C5: the extracted input holds the path parameters under params when there
\* are any, the query under query when it is not empty, and, for POST, PUT and
\* PATCH with a body, the body under body when params or query is there and
\* otherwise the body's own fields at the top level; for other methods the
\* body is left out; it holds nothing else.
C5_ExtractionMergeRule ==
  \A r \in Reqs :
    Live(r) =>
      LET q == req[r]
          e == ExtractInput(q)
          hasParams == DOMAIN q.params # {}
          hasQuery == DOMAIN q.query # {}
          hasBody == q.method \in {"POST", "PUT", "PATCH"} /\ q.body # Undefined
          fromUrl == (IF hasParams THEN {"params"} ELSE {})
                       \cup (IF hasQuery THEN {"query"} ELSE {})
      IN /\ hasParams => e["params"] = q.params
         /\ hasQuery => e["query"] = q.query
         /\ (hasBody /\ fromUrl # {}) =>
              (DOMAIN e = fromUrl \cup {"body"} /\ e["body"] = q.body)
         /\ (hasBody /\ fromUrl = {}) => e = q.body
         /\ ~hasBody => DOMAIN e = fromUrl
         /\ (~hasBody /\ fromUrl = {}) => e = EmptyObj

\* a POST with a query and a body, and one with a body only, were validated
C5_Witness ==
  \E r \in Reqs :
    /\ SeqHas(trace[r], "validation")
    /\ req[r].method = "POST"
    /\ req[r].body # Undefined
    /\ DOMAIN req[r].query = {}
    /\ DOMAIN req[r].body = {"name", "email"}
    /\ req[r].validatedInput = req[r].body

C5_WitnessNested ==
  \E r \in Reqs :
    /\ SeqHas(trace[r], "validation")
    /\ req[r].method = "POST"
    /\ DOMAIN ExtractInput(req[r]) = {"query", "body"}

FullChainRan(r) ==
  LET chain == ChainOf(req[r].route) IN
  /\ Len(ChainTrace(r)) = Len(chain)
  /\ \A j \in 1..Len(chain) : ChainTrace(r)[j] = chain[j].name

\* C6: on a route with a definition and no handler, a request that passed the
\* middleware steps and the validation is answered 501 with the body
\* {error: "Not implemented"}, by the last step of the chain, after all the
\* others have run; a request to it with an invalid input is answered 400
\* and never 501; no handler is invoked.
C6_NotImplemented ==
  \A r \in Reqs :
    (Live(r) /\ handlers[req[r].route] = "absent") =>
      /\ calls[r] = <<>>
      /\ SeqHas(trace[r], "handler") =>
           /\ Check(DefOf(r).input, InputOf(r))
           /\ FullChainRan(r)
           /\ responses[r] =
                <<Response(501, Obj1("error", Str(<<"Not implemented">>)), "handler")>>
      /\ (SeqHas(trace[r], "validation") /\ ~Check(DefOf(r).input, InputOf(r))) =>
           (Len(responses[r]) = 1 /\ responses[r][1].status = 400)
      /\ \A j \in 1..Len(responses[r]) :
           responses[r][j].status = 501 =>
             (FullChainRan(r) /\ Check(DefOf(r).input, InputOf(r)))

\* a valid request answered 501 on a route with middleware
C6_Witness ==
  \E r \in Reqs :
    /\ pc[r] = "done"
    /\ handlers[req[r].route] = "absent"
    /\ responses[r][1].status = 501
    /\ Len(trace[r]) = 3

\* an invalid request answered 400 on a route without handler
C6_WitnessInvalid ==
  \E r \in Reqs :
    /\ pc[r] = "done"
    /\ handlers[req[r].route] = "absent"
    /\ responses[r][1].status = 400

\* C7: a handler result that fails the output schema is never sent; the
\* response is then status 500 with exactly the body
\* {error: "Internal server error"}, whatever the result was, and the
\* validation errors are logged once; a result that is sent (200) conforms
\* to the output schema and nothing is logged for it.
C7_OutputViolationIsGeneric500 ==
  \A r \in Reqs :
    /\ \A j \in 1..Len(responses[r]) :
         LET resp == responses[r][j] IN
         resp.by = "handler" =>
           \/ resp.status = 501 /\ log[r] = <<>>
           \/ /\ resp.status = 200
              /\ Check(DefOf(r).output, resp.body)
              /\ log[r] = <<>>
           \/ /\ resp.status = 500
              /\ resp.body = Obj1("error", Str(<<"Internal server error">>))
              /\ Len(log[r]) = 1
              /\ log[r][1].errors # <<>>
    /\ log[r] # <<>> =>
         /\ Len(responses[r]) = 1
         /\ responses[r][1].status = 500
         /\ responses[r][1].by = "handler"

C7_Witness ==
  \E r \in Reqs :
    /\ pc[r] = "done"
    /\ Len(log[r]) = 1
    /\ Len(log[r][1].errors) = 2
    /\ responses[r][1].status = 500
    /\ Len(calls[r]) = 1

Terminal(r) == SelectSeq(trace[r], LAMBDA n : n \in {"errorHandler", "host"})

C8_WitnessValidation ==
  \E r \in Reqs :
    /\ pc[r] = "done"
    /\ options.errorHandler
    /\ forwarded[r] # <<>>
    /\ forwarded[r][1].from = "validation"

C8_WitnessMiddleware ==
  \E r \in Reqs :
    /\ pc[r] = "done"
    /\ forwarded[r] # <<>>
    /\ forwarded[r][1].from = "rateLimit"

Pos(chain, name) == CHOOSE j \in 1..Len(chain) : chain[j].name = name
Truthy(config) == config \notin {"false", "null", "0", "", "undefined"}

\* C9: in every registered chain the middleware steps come before the
\* validation step, which comes before the handler step; the steps that have
\* run for a request are the first steps of its chain, each once and in chain
\* order; when a middleware step answers without calling next, it is the last
\* step to run (no validation, no handler invocation); and the context the
\* handler receives holds the fields the middleware steps added to the request.
C9_MiddlewareBeforeValidation ==
  \A r \in Reqs :
    Live(r) =>
      LET chain == ChainOf(req[r].route) IN
      /\ \A j \in 1..Len(chain) :
           chain[j].kind = "mw" =>
             (j < Pos(chain, "validation") /\ j < Pos(chain, "handler"))
      /\ Pos(chain, "validation") < Pos(chain, "handler")
      /\ Len(ChainTrace(r)) <= Len(chain)
      /\ \A j \in 1..Len(ChainTrace(r)) : ChainTrace(r)[j] = chain[j].name
      /\ \A j \in 1..Len(responses[r]) :
           responses[r][j].by \in {"auth", "rateLimit"} =>
             /\ Last(trace[r]) = responses[r][j].by
             /\ ~SeqHas(trace[r], "validation")
             /\ ~SeqHas(trace[r], "handler")
             /\ calls[r] = <<>>
             /\ pc[r] = "done"
      /\ \A j \in 1..Len(calls[r]) :
           /\ \A k \in 1..Len(chain) :
                /\ (chain[k].name = "auth" /\ Truthy(chain[k].config)) =>
                     calls[r][j].context.user = Users[req[r].token]
                /\ chain[k].name = "rateLimit" =>
                     calls[r][j].context.remaining = Num(<<"1">>)
           /\ calls[r][j].context.route = req[r].route

\* the handler ran after two middleware steps and sees what both added
C9_Witness ==
  \E r \in Reqs :
    /\ Len(calls[r]) = 1
    /\ trace[r] = <<"rateLimit", "auth", "validation", "handler">>
    /\ calls[r][1].context.user = Obj1("id", Str(<<"1">>))
    /\ calls[r][1].context.remaining # Undefined

\* a middleware step short-circuited
C9_WitnessShortCircuit ==
  \E r \in Reqs :
    /\ pc[r] = "done"
    /\ trace[r] = <<"rateLimit", "auth">>
    /\ responses[r][1].status = 401

\* C10: the middleware steps of a registered chain are exactly one step for
\* each entry of the route's middleware map whose name is in the factory map
\* and whose config is not undefined, made by that factory from that entry's
\* config (one factory call per step), in the order of the route's map.
C10_Composition ==
  created =>
    \A k \in 1..Len(registered) :
      registered[k].method # "use" =>
        LET i == registered[k].route
            entries == RouteTable[i].def.middleware.entries
            f == options.middleware
            steps == SelectSeq(registered[k].chain, LAMBDA st : st.kind = "mw")
            made == SelectSeq(factoryCalls, LAMBDA c : c.route = i)
            InBoth(e) == /\ RouteTable[i].def.middleware.present
                         /\ f.present
                         /\ \E n \in 1..Len(f.names) : f.names[n] = e.name
                         /\ e.config # "undefined"
            EntryOf(name) == CHOOSE n \in 1..Len(entries) : entries[n].name = name
        IN /\ \A j \in 1..Len(steps) :
                \E n \in 1..Len(entries) :
                  /\ entries[n].name = steps[j].name
                  /\ entries[n].config = steps[j].config
                  /\ InBoth(entries[n])
           /\ \A n \in 1..Len(entries) :
                InBoth(entries[n]) =>
                  Cardinality({j \in 1..Len(steps) : steps[j].name = entries[n].name}) = 1
           /\ \A j1, j2 \in 1..Len(steps) :
                j1 < j2 => EntryOf(steps[j1].name) < EntryOf(steps[j2].name)
           /\ Len(made) = Len(steps)
           /\ \A j \in 1..Len(steps) :
                made[j].name = steps[j].name /\ made[j].config = steps[j].config

\* a chain whose two steps follow the route's map (rateLimit, auth) and not the
\* factory map (auth, rateLimit), the entries without factory or config skipped
C10_Witness ==
  /\ created
  /\ options.middleware.present
  /\ options.middleware.names = <<"auth", "rateLimit">>
  /\ \E k \in 1..Len(registered) :
       /\ registered[k].route = 9
       /\ Len(registered[k].chain) = 4
       /\ registered[k].chain[1].name = "rateLimit"
       /\ registered[k].chain[2].name = "auth"
       /\ registered[k].chain[2].config = "admin"

\* an entry of a route's middleware map that gets no step
Skipped(e, f) ==
  \/ ~f.present
  \/ e.config = "undefined"
  \/ ~SeqHas(f.names, e.name)

\* C11: an entry of a route's middleware map whose name has no factory, or
\* whose config is undefined, contributes no step, and the route is registered
\* all the same; a request to such a route is not failed for it: no error is
\* forwarded in the name of a skipped entry.  With no factory map at all every
\* chain is validation then handler, so a route declaring {auth: true} is
\* served without an auth step.
C11_FailOpenSkipping ==
  created =>
    /\ \A i \in Defined : \E k \in 1..Len(registered) : registered[k].route = i
    /\ \A k \in 1..Len(registered) :
         registered[k].method # "use" =>
           LET mw == RouteTable[registered[k].route].def.middleware
               chain == registered[k].chain
           IN /\ \A n \in 1..Len(mw.entries) :
                   Skipped(mw.entries[n], options.middleware) =>
                     \A j \in 1..Len(chain) : chain[j].name # mw.entries[n].name
              /\ ~options.middleware.present =>
                   /\ Len(chain) = 2
                   /\ chain[1].kind = "validation"
                   /\ chain[2].kind = "handler"
    /\ \A r \in Reqs :
         Live(r) =>
           LET mw == RouteTable[req[r].route].def.middleware IN
           /\ \A n \in 1..Len(mw.entries) :
                Skipped(mw.entries[n], options.middleware) =>
                  /\ ~SeqHas(trace[r], mw.entries[n].name)
                  /\ \A j \in 1..Len(forwarded[r]) :
                       forwarded[r][j].from # mw.entries[n].name
                  /\ \A j \in 1..Len(responses[r]) :
                       responses[r][j].by # mw.entries[n].name
           /\ (~options.middleware.present /\ trace[r] # <<>>) =>
                trace[r][1] = "validation"

\* without any factory the route declaring {auth: true} reached its handler,
\* unauthenticated
C11_Witness ==
  \E r \in Reqs :
    /\ ~options.middleware.present
    /\ Live(r)
    /\ req[r].route = 8
    /\ req[r].token = "none"
    /\ trace[r] = <<"validation", "handler">>
    /\ Len(calls[r]) = 1
    /\ calls[r][1].context.user = Undefined

\* an entry whose name has a factory and whose config is undefined: no step
C11_WitnessUndefinedConfig ==
  /\ created
  /\ options.middleware.present
  /\ SeqHas(options.middleware.names, "cache")
  /\ \E k \in 1..Len(registered) :
       /\ registered[k].route = 9
       /\ \A j \in 1..Len(registered[k].chain) : registered[k].chain[j].name # "cache"

\* C12: the router holds exactly one chain for each (path, method) of the
\* route table that has a definition, under that method at basePath + path, in
\* the order of the table, and none for a pair without definition; each chain
\* is its middleware steps, then the validation step, then the handler step;
\* the error handler is registered once, last, exactly when one is configured.
C12_Registration ==
  created =>
    /\ \A i \in RouteIds :
         Cardinality({k \in 1..Len(registered) : registered[k].route = i})
           = IF i \in Defined THEN 1 ELSE 0
    /\ \A k \in 1..Len(registered) :
         registered[k].method # "use" =>
           LET i == registered[k].route
               chain == registered[k].chain
               n == Len(chain)
           IN /\ i \in Defined
              /\ registered[k].method = RouteTable[i].method
              /\ registered[k].path = options.basePath \o RouteTable[i].path
              /\ n >= 2
              /\ chain[n].kind = "handler"
              /\ chain[n].handler = handlers[i]
              /\ chain[n - 1].kind = "validation"
              /\ \A j \in 1..(n - 2) : chain[j].kind = "mw"
              /\ \A j \in 1..n : chain[j].route = i
              /\ \A k2 \in (k + 1)..Len(registered) :
                   registered[k2].method # "use" => i < registered[k2].route
    /\ Cardinality({k \in 1..Len(registered) : registered[k].method = "use"})
         = IF options.errorHandler THEN 1 ELSE 0
    /\ options.errorHandler => registered[Len(registered)].method = "use"

\* a router created with a basePath and an errorHandler over a table with an
\* undefined (path, method) pair
C12_Witness ==
  /\ created
  /\ options.basePath = BaseV1
  /\ options.errorHandler
  /\ RouteTable[5].def = Undefined
  /\ Len(registered) = Cardinality(Defined) + 1
  /\ registered[3].path = BaseV1 \o P_user

----------------------------------------------------------------------------
(* Text: strings as sequences of characters *)

StartsAt(s, p, i) ==
  i + Len(p) - 1 <= Len(s) /\ SubSeq(s, i, i + Len(p) - 1) = p
\* the index of the first occurrence of p in s, 0 when there is none
IndexOf(s, p) ==
  IF \E i \in 1..Len(s) : StartsAt(s, p, i)
    THEN CHOOSE i \in 1..Len(s) :
           StartsAt(s, p, i) /\ \A j \in 1..(i - 1) : ~StartsAt(s, p, j)
    ELSE 0
\* String.prototype.replace with a string pattern: the first occurrence
Replace(s, p, rep) ==
  LET i == IndexOf(s, p) IN
  IF i = 0 THEN s
  ELSE SubSeq(s, 1, i - 1) \o rep \o SubSeq(s, i + Len(p), Len(s))

Reserved == {" ", "/", ":", "?", "&", "=", "%", "+", "[", "]"}
Hex(c) ==
  CASE c = " " -> <<"2", "0">> [] c = "/" -> <<"2", "F">>
    [] c = ":" -> <<"3", "A">> [] c = "?" -> <<"3", "F">>
    [] c = "&" -> <<"2", "6">> [] c = "=" -> <<"3", "D">>
    [] c = "%" -> <<"2", "5">> [] c = "+" -> <<"2", "B">>
    [] c = "[" -> <<"5", "B">> [] c = "]" -> <<"5", "D">>

RECURSIVE EncodeURIComponent(_)
EncodeURIComponent(s) ==
  IF s = <<>> THEN <<>>
  ELSE (IF Head(s) \in Reserved THEN <<"%">> \o Hex(Head(s)) ELSE <<Head(s)>>)
       \o EncodeURIComponent(Tail(s))

\* the serializer of URLSearchParams: a space becomes "+"
RECURSIVE FormEncode(_)
FormEncode(s) ==
  IF s = <<>> THEN <<>>
  ELSE (IF Head(s) = " " THEN <<"+">>
        ELSE IF Head(s) \in Reserved THEN <<"%">> \o Hex(Head(s))
        ELSE <<Head(s)>>)
       \o FormEncode(Tail(s))

\* String(value)
String(x) ==
  IF IsObject(x)
    THEN <<"[", "o", "b", "j", "e", "c", "t", " ", "O", "b", "j", "e", "c", "t", "]">>
  ELSE IF x = Undefined
    THEN <<"u", "n", "d", "e", "f", "i", "n", "e", "d">>
  ELSE x.v

\* Object keys and their spelling; Object.entries lists the keys of an object
\* in this order.
KeyOrder ==
  <<"params", "query", "body", "id", "idx", "q", "limit", "name", "email", "error">>
KeyChars(k) ==
  CASE k = "params" -> <<"p", "a", "r", "a", "m", "s">>
    [] k = "query" -> <<"q", "u", "e", "r", "y">>
    [] k = "body" -> <<"b", "o", "d", "y">>
    [] k = "id" -> <<"i", "d">>
    [] k = "idx" -> <<"i", "d", "x">>
    [] k = "error" -> <<"e", "r", "r", "o", "r">>
    [] k = "q" -> <<"q">>
    [] k = "limit" -> <<"l", "i", "m", "i", "t">>
    [] k = "name" -> <<"n", "a", "m", "e">>
    [] k = "email" -> <<"e", "m", "a", "i", "l">>
KeysInOrder(o) == SelectSeq(KeyOrder, LAMBDA k : k \in DOMAIN o)

\* JSON.stringify followed by JSON.parse: keys whose value is undefined are gone
RECURSIVE Json(_)
Json(x) ==
  IF IsLeaf(x) THEN x
  ELSE [k \in {k \in DOMAIN x : x[k] # Undefined} |-> Json(x[k])]
\* JSON.stringify(undefined) is undefined
JsonStringify(x) == IF x = Undefined THEN Undefined ELSE [json |-> Json(x)]

----------------------------------------------------------------------------
(* TypedClient.request, up to the fetch call *)

\* the origin the host application listens at
Origin == <<"h", "t", "t", "p", ":", "/", "/", "h", ":", "8", "0">>

ClientOptions(baseUrl, headers) == [baseUrl |-> baseUrl, headers |-> headers]

\* the loop of part_001:56-58 over the keys ks of params
RECURSIVE ReplaceParams(_, _, _)
ReplaceParams(url, params, ks) ==
  IF ks = <<>> THEN url
  ELSE ReplaceParams(
         Replace(url, <<":">> \o KeyChars(Head(ks)),
                 EncodeURIComponent(String(params[Head(ks)]))),
         params, Tail(ks))

\* queryParams.toString() after the loop of part_001:66-70 over the keys ks
RECURSIVE QueryString(_, _)
QueryString(queryInput, ks) ==
  IF ks = <<>> THEN <<>>
  ELSE LET k == Head(ks)
           rest == QueryString(queryInput, Tail(ks))
       IN IF queryInput[k] # Undefined /\ k # "params"
            THEN FormEncode(KeyChars(k)) \o <<"=">> \o FormEncode(String(queryInput[k]))
                 \o (IF rest = <<>> THEN <<>> ELSE <<"&">> \o rest)
            ELSE rest

\* part_001:78-90
RequestBodyAlways(method, input) ==
  IF method \in {"post", "put", "patch"} /\ IsObject(input)
    THEN JsonStringify(input)
    ELSE Undefined
\* the body rule applied to DELETE as well
RequestBodyWithDelete(method, input) ==
  IF method \in {"post", "put", "patch", "delete"} /\ IsObject(input)
    THEN IF "body" \in DOMAIN input THEN JsonStringify(input["body"])
         ELSE IF "params" \in DOMAIN input THEN Undefined
         ELSE JsonStringify(input)
    ELSE Undefined
RequestBody(method, input) ==
  IF method \in {"post", "put", "patch"} /\ IsObject(input)
    THEN IF "body" \in DOMAIN input THEN JsonStringify(input["body"])
         ELSE IF "params" \in DOMAIN input THEN Undefined
         ELSE JsonStringify(input)
    ELSE Undefined

\* the query string built for every method
RequestUrlAnyMethod(baseUrl, method, path, input) ==
  LET url == baseUrl \o path
      substituted ==
        IF IsObject(input) /\ "params" \in DOMAIN input
          THEN ReplaceParams(url, input["params"], KeysInOrder(input["params"]))
          ELSE url
      queryInput == IF "query" \in DOMAIN input THEN input["query"] ELSE input
      queryString == QueryString(queryInput, KeysInOrder(queryInput))
  IN IF IsObject(input) /\ queryString # <<>>
       THEN substituted \o <<"?">> \o queryString
       ELSE substituted
\* part_001:39-76
RequestUrl(baseUrl, method, path, input) ==
  LET url == baseUrl \o path
      substituted ==
        IF IsObject(input) /\ "params" \in DOMAIN input
          THEN ReplaceParams(url, input["params"], KeysInOrder(input["params"]))
          ELSE url
      queryInput == IF "query" \in DOMAIN input THEN input["query"] ELSE input
      queryString == QueryString(queryInput, KeysInOrder(queryInput))
  IN IF method = "get" /\ IsObject(input) /\ queryString # <<>>
       THEN substituted \o <<"?">> \o queryString
       ELSE substituted

\* the configured headers applied first, Content-Type after them
RequestHeadersFixed(opts) ==
  ObjectAssign(opts.headers, Obj1("Content-Type", S("application/json")))
\* part_001:42-50
RequestHeaders(opts) ==
  ObjectAssign(Obj1("Content-Type", S("application/json")), opts.headers)

\* the arguments of fetch (part_001:93-97)
FetchRequest(opts, method, path, input) ==
  [method |-> Upper(method),
   url |-> RequestUrl(opts.baseUrl, method, path, input),
   headers |-> RequestHeaders(opts),
   body |-> RequestBody(method, input)]

----------------------------------------------------------------------------
(* The host: Express matching a URL against the registered routes, and its  *)
(* query and JSON body parsers.                                             *)

RECURSIVE SplitOn(_, _)
\* s split at every sep
SplitOn(s, sep) ==
  LET i == IndexOf(s, <<sep>>) IN
  IF i = 0 THEN <<s>>
  ELSE <<SubSeq(s, 1, i - 1)>> \o SplitOn(SubSeq(s, i + 1, Len(s)), sep)

Unhex(a, b) ==
  IF \E c \in Reserved : Hex(c) = <<a, b>>
    THEN CHOOSE c \in Reserved : Hex(c) = <<a, b>>
    ELSE "?"

RECURSIVE DecodeURIComponent(_)
DecodeURIComponent(s) ==
  IF s = <<>> THEN <<>>
  ELSE IF Head(s) = "%" /\ Len(s) >= 3
    THEN <<Unhex(s[2], s[3])>> \o DecodeURIComponent(SubSeq(s, 4, Len(s)))
  ELSE <<Head(s)>> \o DecodeURIComponent(Tail(s))

PlusToSpace(s) == [j \in 1..Len(s) |-> IF s[j] = "+" THEN " " ELSE s[j]]

KeyOf(chars) ==
  IF \E j \in 1..Len(KeyOrder) : KeyChars(KeyOrder[j]) = chars
    THEN KeyOrder[CHOOSE j \in 1..Len(KeyOrder) : KeyChars(KeyOrder[j]) = chars]
    ELSE "other"

\* the segments of a pattern against those of a path
SegmentsMatch(pattern, path) ==
  /\ Len(pattern) = Len(path)
  /\ \A j \in 1..Len(pattern) :
       IF pattern[j] # <<>> /\ Head(pattern[j]) = ":"
         THEN path[j] # <<>>
         ELSE pattern[j] = path[j]

\* req.params of a path matched by a pattern
PathParams(pattern, path) ==
  LET ps == SplitOn(pattern, "/")
      xs == SplitOn(path, "/")
      named == {j \in 1..Len(ps) : ps[j] # <<>> /\ Head(ps[j]) = ":"}
  IN [k \in {KeyOf(Tail(ps[j])) : j \in named} |->
        LET j == CHOOSE j \in named : KeyOf(Tail(ps[j])) = k
        IN Str(DecodeURIComponent(xs[j]))]

\* req.query of a query string
ParseQuery(qs) ==
  IF qs = <<>> THEN EmptyObj
  ELSE LET pairs == SplitOn(qs, "&")
           KeyAt(j) == KeyOf(DecodeURIComponent(PlusToSpace(Head(SplitOn(pairs[j], "=")))))
           ValueAt(j) ==
             LET i == IndexOf(pairs[j], <<"=">>) IN
             IF i = 0 THEN <<>>
             ELSE DecodeURIComponent(PlusToSpace(SubSeq(pairs[j], i + 1, Len(pairs[j]))))
       IN [k \in {KeyAt(j) : j \in 1..Len(pairs)} |->
             Str(ValueAt(CHOOSE j \in 1..Len(pairs) : KeyAt(j) = k))]

UrlPath(url) ==
  LET rest == SubSeq(url, Len(Origin) + 1, Len(url))
      i == IndexOf(rest, <<"?">>)
  IN IF i = 0 THEN rest ELSE SubSeq(rest, 1, i - 1)
UrlQuery(url) ==
  LET i == IndexOf(url, <<"?">>) IN
  IF i = 0 THEN <<>> ELSE SubSeq(url, i + 1, Len(url))

\* the registrations the request on the wire matches
Matches(w) ==
  { k \in 1..Len(registered) :
      /\ Upper(registered[k].method) = w.method
      /\ StartsAt(w.url, Origin, 1)
      /\ SegmentsMatch(SplitOn(registered[k].path, "/"), SplitOn(UrlPath(w.url), "/")) }

----------------------------------------------------------------------------
(* A client call travelling to the router *)

IdAB == Obj1("id", Str(<<"a", " ", "b">>))
QAB == Obj1("q", Str(<<"a", " ", "b">>))

\* inputs a caller passes for route i (no input: Undefined)
InputsFor(i) ==
  CASE i = 1 -> {EmptyObj, Obj1("limit", Num(Chars_1))}
    [] i = 2 -> {ObjectAssign(NameA, EmailE), ObjectAssign(NameEmpty, EmailE)}
    [] i = 3 -> {Obj1("params", Id1), Obj1("params", IdAB)}
    [] i = 4 -> {ObjectAssign(Obj1("params", Id1), Obj1("body", NameA))}
    [] i = 6 -> {Obj1("params", Id1)}
    [] i = 7 -> {Obj1("query", QA), Obj1("query", QAB)}
    [] i = 8 -> {EmptyObj, Undefined}
    [] i = 9 -> {EmptyObj}
    [] i = 10 -> {EmptyObj}

\* the headers the client is configured with
HeaderSets == {EmptyObj, Obj1("Authorization", S("token-123"))}

\* client.get / post / put / patch / delete (path, input): request() builds
\* the HTTP request and issues it with fetch
ClientRequest(r) ==
  /\ created
  /\ pc[r] = "idle"
  /\ call[r] = NoCall
  /\ \E i \in Defined : \E input \in InputsFor(i) : \E hs \in HeaderSets :
       LET opts == ClientOptions(Origin \o options.basePath, hs) IN
       /\ call' = [call EXCEPT ![r] =
                     [route |-> i, method |-> RouteTable[i].method,
                      path |-> RouteTable[i].path, input |-> input]]
       /\ wire' = [wire EXCEPT ![r] =
                     FetchRequest(opts, RouteTable[i].method, RouteTable[i].path, input)]
  /\ UNCHANGED serverVars
  /\ UNCHANGED callVars

\* express.json(): the parsed body; without a body the parser leaves
\* req.body undefined or sets it to {} (that depends on the host's version)
ParsedBodies(w) ==
  IF w.body = Undefined THEN {Undefined, EmptyObj} ELSE {w.body.json}

\* The host routes the request on the wire to the first registration that
\* matches it and starts its chain.
Receive(r) ==
  /\ wire[r] # NoWire
  /\ pc[r] = "idle"
  /\ Matches(wire[r]) # {}
  /\ LET w == wire[r]
         k == CHOOSE k \in Matches(w) : \A m \in Matches(w) : k <= m
         i == registered[k].route
     IN \E body \in ParsedBodies(w) :
          req' = [req EXCEPT ![r] =
                    [Request(i, PathParams(registered[k].path, UrlPath(w.url)),
                             ParseQuery(UrlQuery(w.url)), body,
                             IF "Authorization" \in DOMAIN w.headers
                               THEN w.headers["Authorization"].v[1] ELSE "none")
                     EXCEPT !.method = w.method]]
  /\ pc' = [pc EXCEPT ![r] = "chain"]
  /\ idx' = [idx EXCEPT ![r] = 1]
  /\ UNCHANGED <<created, handlers, options, registered, factoryCalls,
                 trace, responses, calls, forwarded, log>>
  /\ UNCHANGED clientVars

RoundTripNext ==
  \/ CreateTypedRouter
  \/ \E r \in Reqs : ClientRequest(r)
  \/ \E r \in Reqs : Receive(r)
  \/ \E r \in Reqs : AuthStep(r)
  \/ \E r \in Reqs : RateLimitStep(r)
  \/ \E r \in Reqs : ValidationMiddleware(r)
  \/ \E r \in Reqs : HandlerMiddleware(r)
  \/ \E r \in Reqs : HandlerSettles(r)
  \/ \E r \in Reqs : ErrorHandler(r)
  \/ \E r \in Reqs : HostFinalHandler(r)
  \/ \E r \in Reqs : Discard(r)

SpecRoundTrip == Init /\ [][RoundTripNext]_vars

\* C2: when a client call whose input satisfies the route's input schema has
\* reached the route's chain, the input the server extracts from the request
\* equals the input the client was given.
C2_RoundTrip ==
  \A r \in Reqs :
    (call[r] # NoCall /\ Live(r)
       /\ Check(RouteTable[call[r].route].def.input, call[r].input)) =>
      /\ req[r].route = call[r].route
      /\ ExtractInput(req[r]) = call[r].input

----------------------------------------------------------------------------
(* TypedClient: construction, and request() from the call to its settling *)

P_twice == <<"/", "d", "/", ":", "i", "d", "/", ":", "i", "d">>
P_idx == <<"/", "i", "/", ":", "i", "d", "x", "/", ":", "i", "d">>

Call(route, method, path, input) ==
  [route |-> route, method |-> method, path |-> path, input |-> input]

\* the calls made on the client: client.get(path, input), client.post(...),
\* ...; route is the entry of the route table the (path, method) belongs to,
\* 0 for a path of another table
ClientCalls ==
  { Call(1, "get", P_users, Undefined),
    Call(1, "get", P_users, EmptyObj),
    Call(1, "get", P_users, Obj1("limit", Num(Chars_1))),
    Call(1, "get", P_users, ObjectAssign(Obj1("limit", Undefined), NameA)),
    Call(7, "get", P_search, Obj1("query", QA)),
    Call(7, "get", P_search, Obj1("query", QAB)),
    Call(7, "get", P_search, Obj1("query", EmptyObj)),
    Call(7, "get", P_search, Obj1("query", ObjectAssign(QA, Obj1("params", Str(Chars_1))))),
    Call(3, "get", P_user, Obj1("params", Id1)),
    Call(3, "get", P_user, Obj1("params", IdAB)),
    Call(3, "get", P_user, Obj1("params", QA)),
    Call(3, "get", P_user, ObjectAssign(Obj1("params", Id1), Obj1("limit", Num(Chars_1)))),
    Call(0, "get", P_twice, Obj1("params", Id1)),
    Call(0, "get", P_idx, Obj1("params", ObjectAssign(Id1, Obj1("idx", Str(Chars_a))))),
    Call(2, "post", P_users, Undefined),
    Call(2, "post", P_users, EmptyObj),
    Call(2, "post", P_users, ObjectAssign(NameA, EmailE)),
    Call(2, "post", P_users, Obj1("body", NameA)),
    Call(4, "put", P_user, ObjectAssign(Obj1("params", Id1), Obj1("body", NameA))),
    Call(4, "put", P_user, Obj1("params", Id1)),
    Call(5, "patch", P_user, ObjectAssign(Obj1("params", Id1), NameA)),
    Call(6, "delete", P_user, Obj1("params", Id1)),
    Call(6, "delete", P_user, ObjectAssign(Obj1("params", Id1), Obj1("body", NameA))),
    Call(6, "delete", P_user, Obj1("body", NameA)),
    Call(6, "delete", P_user, NameA),
    Call(2, "post", P_users, Obj1("query", QA)),
    Call(2, "post", P_users, ObjectAssign(Obj1("query", QA), Obj1("body", NameA))),
    Call(4, "put", P_user, ObjectAssign(Obj1("params", Id1), Obj1("query", QA))),
    Call(6, "delete", P_user, ObjectAssign(Obj1("params", Id1), Obj1("query", QA))) }

MaxHeaderCalls == 2

\* options.headers: absent, an object, or a function computing the headers
NoHeaders == [kind |-> "none", value |-> EmptyObj]
StaticHeaders(h) == [kind |-> "static", value |-> h]
HeadersFunction == [kind |-> "function", value |-> EmptyObj]
\* what the n-th invocation of the headers function resolves with: a token
\* fetched for that call
HeadersResult(n) == Obj1("Authorization", Str(<<"token-", ToString(n)>>))

\* the options argument of the constructor; validateResponses "unset" when
\* the caller leaves it out
OptionsArg(headers, onError, validateResponses) ==
  [headers |-> headers, onError |-> onError, validateResponses |-> validateResponses]
OptionsArgs ==
  { OptionsArg(NoHeaders, FALSE, "unset"),
    OptionsArg(StaticHeaders(Obj1("Authorization", S("token-123"))), TRUE, "unset"),
    OptionsArg(StaticHeaders(Obj1("Content-Type", S("text/plain"))), FALSE, "false"),
    OptionsArg(HeadersFunction, TRUE, "true"),
    OptionsArg(HeadersFunction, FALSE, "false") }

\* part_001:23-31: { validateResponses: true, ...options }
ConstructorOptions(arg) ==
  [arg EXCEPT !.validateResponses = IF @ = "unset" THEN "true" ELSE @]

\* a base URL with credentials: http://u:id@h:80
OriginWithUser ==
  <<"h", "t", "t", "p", ":", "/", "/", "u", ":", "i", "d", "@", "h", ":", "8", "0">>
\* the (baseUrl, options) pairs the client is constructed with
ClientSetups ==
  { <<Origin, arg>> : arg \in OptionsArgs }
    \cup { <<OriginWithUser, OptionsArg(NoHeaders, FALSE, "unset")>> }

\* new TypedClient(baseUrl, options), (baseUrl, options) being one of setups
CreateTypedClientWith(setups) ==
  /\ ~client.constructed
  /\ \E setup \in setups :
       client' = [constructed |-> TRUE, baseUrl |-> setup[1],
                  options |-> ConstructorOptions(setup[2])]
  /\ UNCHANGED <<serverVars, call, wire, cpc, events, response, headerCalls>>
CreateTypedClient == CreateTypedClientWith(ClientSetups)

Event(e, x) == [e |-> e, x |-> x]

\* what fetch resolves with: status, statusText and the body, JSON or not
NotJson == [t |-> "notjson", v |-> <<>>]
JsonNull == [t |-> "null", v |-> <<>>]
HttpResponse(status, statusText, body) ==
  [status |-> status, ok |-> status \in 200..299,
   statusText |-> S(statusText), body |-> body]
Responses ==
  { HttpResponse(200, "OK", Id1),
    HttpResponse(200, "OK", NameA),
    HttpResponse(200, "OK", NotJson),
    HttpResponse(400, "Bad Request", ErrorBody("Validation failed")),
    HttpResponse(404, "Not Found", NameA),
    HttpResponse(429, "Too Many Requests", Obj1("error", Num(Chars_1))),
    HttpResponse(500, "Internal Server Error", NotJson),
    HttpResponse(502, "Bad Gateway", JsonNull) }

\* the responses a call is answered with: any of them for GET /u, a success
\* for the other calls
ResponsesFor(c) ==
  IF c.route = 1 THEN Responses ELSE {HttpResponse(200, "OK", Id1)}

Error(message, status, resp) ==
  [message |-> message, status |-> status, response |-> resp]
\* errors that carry neither status nor response
HeadersError == Error(S("no token"), 0, Undefined)
NetworkError == Error(S("fetch failed"), 0, Undefined)
SyntaxError == Error(S("Unexpected token"), 0, Undefined)

\* the headers function's first result, kept for the later calls
CustomHeadersCached(opts, n) ==
  IF opts.headers.kind = "function" THEN HeadersResult(1) ELSE opts.headers.value
\* part_001:46-48: customHeaders, n being the invocation of the headers
\* function this call awaited
CustomHeaders(opts, n) ==
  IF opts.headers.kind = "function" THEN HeadersResult(n) ELSE opts.headers.value

ParsedErrorBodyEmpty(resp) ==
  IF resp.body = NotJson THEN EmptyObj ELSE resp.body
\* part_001:101: response.json(), or {error: response.statusText}
ParsedErrorBody(resp) ==
  IF resp.body = NotJson THEN Obj1("error", resp.statusText) ELSE resp.body

StatusMessage(status) == Str(<<"Request failed with status ", ToString(status)>>)
\* the legacy client's rule (client.ts:94): errorBody.error || the status message
ErrorMessageLegacy(errorBody, status) ==
  IF IsObject(errorBody) /\ "error" \in DOMAIN errorBody
    THEN errorBody["error"] ELSE StatusMessage(status)
\* part_001:102-108
ErrorMessage(errorBody, status) ==
  IF /\ IsObject(errorBody)
     /\ "error" \in DOMAIN errorBody
     /\ IsLeaf(errorBody["error"])
     /\ errorBody["error"].t = "str"
    THEN errorBody["error"] ELSE StatusMessage(status)

\* part_001:100-113: the error thrown for a response that is not ok
ResponseError(resp) ==
  Error(ErrorMessage(ParsedErrorBody(resp), resp.status), resp.status,
        ParsedErrorBody(resp))

\* a catch block that leaves onError out
CatchWithoutOnError(r, error) ==
  /\ events' = [events EXCEPT ![r] = Append(@, Event("reject", error))]
  /\ cpc' = [cpc EXCEPT ![r] = "rejected"]
\* a catch block that does not rethrow: the call resolves with undefined
CatchAndSwallow(r, error) ==
  /\ events' = [events EXCEPT ![r] =
                  @ \o (IF client.options.onError
                          THEN <<Event("onError", error)>> ELSE <<>>)
                    \o <<Event("return", [value |-> Undefined])>>]
  /\ cpc' = [cpc EXCEPT ![r] = "returned"]
\* part_001:119-124: onError(error) when configured (a callback that returns),
\* then throw error
Catch(r, error) ==
  /\ events' = [events EXCEPT ![r] =
                  @ \o (IF client.options.onError
                          THEN <<Event("onError", error)>> ELSE <<>>)
                    \o <<Event("reject", error)>>]
  /\ cpc' = [cpc EXCEPT ![r] = "rejected"]

\* part_001:93-97: fetch is called with what request() has built
IssueFetch(r, c, n) ==
  LET w == FetchRequest(ClientOptions(client.baseUrl, CustomHeaders(client.options, n)),
                        c.method, c.path, c.input)
  IN /\ wire' = [wire EXCEPT ![r] = w]
     /\ events' = [events EXCEPT ![r] = Append(@, Event("fetch", w))]
     /\ cpc' = [cpc EXCEPT ![r] = "fetch"]

\* request(method, path, input) up to its first await: of the headers
\* function when there is one, of fetch otherwise
ClientCallWith(r, cs) ==
  /\ client.constructed
  /\ cpc[r] = "idle"
  /\ pc[r] = "idle"
  /\ call[r] = NoCall
  /\ \E c \in cs :
       /\ call' = [call EXCEPT ![r] = c]
       /\ IF client.options.headers.kind = "function"
            THEN /\ headerCalls < MaxHeaderCalls
                 /\ headerCalls' = headerCalls + 1
                 /\ events' = [events EXCEPT ![r] =
                                 Append(@, Event("headers", [n |-> headerCalls + 1]))]
                 /\ cpc' = [cpc EXCEPT ![r] = "headers"]
                 /\ UNCHANGED wire
            ELSE /\ IssueFetch(r, c, 0)
                 /\ UNCHANGED headerCalls
  /\ UNCHANGED <<serverVars, client, response>>
ClientCall(r) == ClientCallWith(r, ClientCalls)

\* the headers function settles: with the headers, and request() goes on to
\* fetch, or with an error
HeadersSettle(r) ==
  /\ cpc[r] = "headers"
  /\ \/ /\ IssueFetch(r, call[r], events[r][Len(events[r])].x.n)
     \/ /\ Catch(r, HeadersError)
        /\ UNCHANGED wire
  /\ UNCHANGED <<serverVars, client, call, response, headerCalls>>

\* what request() returns for a parsed success body: data, as it is
\* (part_001:115-118)
Returned(data) == data

\* part_001:99-118: request() from the response fetch resolved with to its end
Resolve(r, resp) ==
  /\ response' = [response EXCEPT ![r] = resp]
  /\ IF ~resp.ok THEN Catch(r, ResponseError(resp))
     ELSE IF resp.body = NotJson THEN Catch(r, SyntaxError)
     ELSE /\ events' = [events EXCEPT ![r] =
                          Append(@, Event("return", [value |-> Returned(resp.body)]))]
          /\ cpc' = [cpc EXCEPT ![r] = "returned"]

\* fetch settles, and request() runs to its end: a rejected fetch, a response
\* that is not ok and a body that does not parse go to the catch block
FetchSettles(r) ==
  /\ cpc[r] = "fetch"
  /\ \/ /\ Catch(r, NetworkError)
        /\ UNCHANGED response
     \/ \E resp \in ResponsesFor(call[r]) : Resolve(r, resp)
  /\ UNCHANGED <<serverVars, client, call, wire, headerCalls>>

\* the caller has its result; the next call can be made
ClientDone(r) ==
  /\ cpc[r] \in {"returned", "rejected"}
  /\ call' = [call EXCEPT ![r] = NoCall]
  /\ wire' = [wire EXCEPT ![r] = NoWire]
  /\ cpc' = [cpc EXCEPT ![r] = "idle"]
  /\ events' = [events EXCEPT ![r] = <<>>]
  /\ response' = [response EXCEPT ![r] = NoResponse]
  /\ UNCHANGED <<serverVars, client, headerCalls>>

ClientNext ==
  \/ CreateTypedClient
  \/ \E r \in Reqs : ClientCall(r)
  \/ \E r \in Reqs : HeadersSettle(r)
  \/ \E r \in Reqs : FetchSettles(r)
  \/ \E r \in Reqs : ClientDone(r)

SpecClient == Init /\ [][ClientNext]_vars

----------------------------------------------------------------------------
(* Properties of the client *)

RECURSIVE Join(_, _)
Join(segments, sep) ==
  IF segments = <<>> THEN <<>>
  ELSE IF Len(segments) = 1 THEN segments[1]
  ELSE segments[1] \o <<sep>> \o Join(Tail(segments), sep)

\* a path with every placeholder :name that has a key in params replaced by
\* the URL-encoded string form of params.name, and the others left as they are
SubstituteAll(path, params) ==
  LET segments == SplitOn(path, "/")
      Named(seg) == seg # <<>> /\ Head(seg) = ":" /\ KeyOf(Tail(seg)) \in DOMAIN params
  IN Join([j \in 1..Len(segments) |->
             IF Named(segments[j])
               THEN EncodeURIComponent(String(params[KeyOf(Tail(segments[j]))]))
               ELSE segments[j]],
          "/")

\* a call in progress whose input is an object with the given key
InputHas(r, k) ==
  /\ call[r] # NoCall
  /\ wire[r] # NoWire
  /\ IsObject(call[r].input)
  /\ k \in DOMAIN call[r].input

\* C13: for an input carrying params, the path of the URL the client requests
\* is the route path with every occurrence of each placeholder :name replaced
\* by the URL-encoded string form of params.name, placeholders without a key
\* in params left as they are, and no placeholder given the value of another
\* name.
C13_PathParams ==
  \A r \in Reqs :
    InputHas(r, "params") =>
      UrlPath(wire[r].url) = SubstituteAll(call[r].path, call[r].input["params"])

\* o without its key k
Without(o, k) == [j \in DOMAIN o \ {k} |-> o[j]]

\* the key=value pairs of the query string of a URL, decoded
QueryPairs(url) ==
  LET qs == UrlQuery(url)
      pairs == IF qs = <<>> THEN <<>> ELSE SplitOn(qs, "&")
  IN [j \in 1..Len(pairs) |->
        LET i == IndexOf(pairs[j], <<"=">>) IN
        [key |-> DecodeURIComponent(PlusToSpace(SubSeq(pairs[j], 1, i - 1))),
         value |-> DecodeURIComponent(PlusToSpace(SubSeq(pairs[j], i + 1, Len(pairs[j]))))]]

\* C14: for a GET call with an object input the query string comes from the
\* query sub-object when the input has a query key, and otherwise from the
\* whole input without its params key; every key of that source whose value
\* is not undefined appears exactly once, with the string form of its value,
\* nothing else appears, and there is no "?" when no key remains.
C14_GetQuery ==
  \A r \in Reqs :
    (call[r] # NoCall /\ wire[r] # NoWire /\ call[r].method = "get"
       /\ IsObject(call[r].input)) =>
      LET input == call[r].input
          source == IF "query" \in DOMAIN input THEN input["query"]
                    ELSE Without(input, "params")
          kept == {k \in DOMAIN source : source[k] # Undefined}
          pairs == QueryPairs(wire[r].url)
      IN /\ Len(pairs) = Cardinality(kept)
         /\ \A k \in kept :
              Cardinality({j \in 1..Len(pairs) :
                             /\ pairs[j].key = KeyChars(k)
                             /\ pairs[j].value = String(source[k])}) = 1
         /\ kept = {} => IndexOf(wire[r].url, <<"?">>) = 0

\* a call of one of the given methods whose request has been issued
Issued(r, methods) ==
  call[r] # NoCall /\ wire[r] # NoWire /\ call[r].method \in methods

\* C15: for a POST, PUT or PATCH call the request body is the JSON text of
\* input.body when the input is an object with a body key; there is no body
\* when it has a params key and no body key; otherwise the body is the JSON
\* text of the whole input; with no input there is no body.
C15_BodyRule ==
  \A r \in Reqs :
    Issued(r, {"post", "put", "patch"}) =>
      LET input == call[r].input
          body == wire[r].body
      IN IF ~IsObject(input) THEN body = Undefined
         ELSE IF "body" \in DOMAIN input THEN body = [json |-> Json(input["body"])]
         ELSE IF "params" \in DOMAIN input THEN body = Undefined
         ELSE body = [json |-> Json(input)]

\* a PUT with params and body sent its body only; a PATCH with params and
\* other keys sent none; a POST sent its whole input
C15_Witness ==
  \E r \in Reqs :
    /\ Issued(r, {"put"})
    /\ DOMAIN call[r].input = {"params", "body"}
    /\ wire[r].body = [json |-> NameA]
    /\ cpc[r] = "fetch"

C15_WitnessParamsOnly ==
  \E r \in Reqs :
    /\ Issued(r, {"patch"})
    /\ DOMAIN call[r].input = {"params", "name"}
    /\ wire[r].body = Undefined

C15_WitnessWhole ==
  \E r \in Reqs :
    /\ Issued(r, {"post"})
    /\ wire[r].body = [json |-> ObjectAssign(NameA, EmailE)]

\* C16 as stated: a DELETE call follows the body rule of POST, PUT and PATCH:
\* the JSON text of input.body when the input has a body key, no body when it
\* has params and no body key, and otherwise the JSON text of the whole input.
C16_DeleteBodyRule ==
  \A r \in Reqs :
    Issued(r, {"delete"}) =>
      LET input == call[r].input
          body == wire[r].body
      IN IF ~IsObject(input) THEN body = Undefined
         ELSE IF "body" \in DOMAIN input THEN body = [json |-> Json(input["body"])]
         ELSE IF "params" \in DOMAIN input THEN body = Undefined
         ELSE body = [json |-> Json(input)]

\* C16, as the client behaves: a DELETE call is issued without a body and
\* without a query string, whatever its input is.
C16_DeleteSendsNoBody ==
  \A r \in Reqs :
    Issued(r, {"delete"}) =>
      /\ wire[r].method = "DELETE"
      /\ wire[r].body = Undefined
      /\ QueryPairs(wire[r].url) = <<>>

\* a DELETE whose input has a body key, issued without body
C16_Witness ==
  \E r \in Reqs :
    /\ Issued(r, {"delete"})
    /\ Has(call[r].input, "body")
    /\ call[r].input["body"] = NameA
    /\ wire[r].body = Undefined
    /\ cpc[r] = "fetch"

\* how a call settled: its last event
Settled(r) == events[r][Len(events[r])]
\* a call that got a response whose status is not a success status
GotFailure(r) == response[r] # NoResponse /\ ~response[r].ok

C17_WitnessErrorField ==
  \E r \in Reqs :
    /\ GotFailure(r)
    /\ response[r].status = 400
    /\ Settled(r).x.message = S("Validation failed")

C17_WitnessNotJson ==
  \E r \in Reqs :
    /\ GotFailure(r)
    /\ response[r].body = NotJson
    /\ Settled(r).x.response = Obj1("error", S("Internal Server Error"))
    /\ Settled(r).x.message = S("Internal Server Error")

OnErrorEvents(r) == SelectSeq(events[r], LAMBDA ev : ev.e = "onError")
\* a call that has failed: its headers function, its fetch, its response's
\* status or the parsing of its response
Failed(r) ==
  \/ cpc[r] = "rejected"
  \/ GotFailure(r)
  \/ response[r] # NoResponse /\ response[r].body = NotJson

C18_WitnessStatus ==
  \E r \in Reqs :
    /\ cpc[r] = "rejected"
    /\ client.options.onError
    /\ GotFailure(r)
    /\ Len(OnErrorEvents(r)) = 1
    /\ OnErrorEvents(r)[1].x.status = 500

C18_WitnessParse ==
  \E r \in Reqs :
    /\ cpc[r] = "rejected"
    /\ client.options.onError
    /\ response[r] # NoResponse /\ response[r].ok
    /\ OnErrorEvents(r) = <<Event("onError", SyntaxError)>>

C18_WitnessTransport ==
  \E r \in Reqs :
    /\ cpc[r] = "rejected"
    /\ client.options.onError
    /\ OnErrorEvents(r) = <<Event("onError", NetworkError)>>

C18_WitnessSuccess ==
  \E r \in Reqs :
    /\ cpc[r] = "returned"
    /\ client.options.onError
    /\ OnErrorEvents(r) = <<>>

HeaderEvents(r) == SelectSeq(events[r], LAMBDA ev : ev.e = "headers")
\* the headers configured for the call: the object, or what the call's own
\* invocation of the headers function resolved with
Configured(r) ==
  IF client.options.headers.kind = "function"
    THEN HeadersResult(HeaderEvents(r)[1].x.n)
    ELSE client.options.headers.value

\* when headers is a function, it was invoked once for this call, before the
\* fetch, and by no other call in progress; when it is not, never
HeadersComputedPerCall(r) ==
  IF client.options.headers.kind = "function"
    THEN /\ Len(HeaderEvents(r)) = 1
         /\ events[r][1].e = "headers"
         /\ events[r][2].e = "fetch"
         /\ HeaderEvents(r)[1].x.n \in 1..headerCalls
         /\ \A r2 \in Reqs \ {r} :
              \A j \in 1..Len(events[r2]) :
                events[r2][j].e = "headers" => events[r2][j].x.n # HeaderEvents(r)[1].x.n
         /\ NumSlots = 1 => HeaderEvents(r)[1].x.n = headerCalls
    ELSE HeaderEvents(r) = <<>> /\ headerCalls = 0

\* C19 as stated: every request issued carries Content-Type: application/json
\* and every configured header, whatever the configured headers are; a
\* headers function is invoked once on every call, before the request is
\* issued, and the call uses the result of its own invocation.
C19_ContentTypeAlwaysJson ==
  \A r \in Reqs :
    (call[r] # NoCall /\ wire[r] # NoWire) =>
      /\ "Content-Type" \in DOMAIN wire[r].headers
      /\ wire[r].headers["Content-Type"] = S("application/json")
      /\ \A k \in DOMAIN Configured(r) : wire[r].headers[k] = Configured(r)[k]
      /\ HeadersComputedPerCall(r)

\* C19, as the client behaves: every request issued carries every configured
\* header, and Content-Type: application/json unless the configured headers
\* set Content-Type themselves, and nothing else; a headers function is
\* invoked once on every call, before the request is issued, and the call uses
\* the result of its own invocation.
C19_ConfiguredHeadersWin ==
  \A r \in Reqs :
    (call[r] # NoCall /\ wire[r] # NoWire) =>
      /\ DOMAIN wire[r].headers = {"Content-Type"} \cup DOMAIN Configured(r)
      /\ \A k \in DOMAIN Configured(r) : wire[r].headers[k] = Configured(r)[k]
      /\ "Content-Type" \notin DOMAIN Configured(r) =>
           wire[r].headers["Content-Type"] = S("application/json")
      /\ HeadersComputedPerCall(r)

\* the second call of a client with a headers function: its request carries
\* the token of the second invocation
C19_Witness ==
  \E r \in Reqs :
    /\ wire[r] # NoWire
    /\ headerCalls = 2
    /\ HeaderEvents(r) = <<Event("headers", [n |-> 2])>>
    /\ wire[r].headers["Authorization"] = Str(<<"token-", "2">>)
    /\ wire[r].headers["Content-Type"] = S("application/json")

\* a client configured with its own Content-Type
C19_WitnessOverride ==
  \E r \in Reqs :
    /\ wire[r] # NoWire
    /\ client.options.headers.kind = "static"
    /\ wire[r].headers["Content-Type"] = S("text/plain")

\* C20: with validateResponses true (the default) a call never returns a
\* success body that does not conform to the output schema of its route: such
\* a response is rejected; with validateResponses false the body is returned
\* as it came.
C20_ResponsesValidated ==
  \A r \in Reqs :
    (response[r] # NoResponse /\ response[r].ok /\ response[r].body # NotJson
       /\ call[r].route \in Defined) =>
      LET output == RouteTable[call[r].route].def.output IN
      IF client.options.validateResponses = "true"
        THEN IF Check(output, response[r].body)
               THEN cpc[r] = "returned" /\ Settled(r).x.value = response[r].body
               ELSE cpc[r] = "rejected"
        ELSE cpc[r] = "returned" /\ Settled(r).x.value = response[r].body

----------------------------------------------------------------------------
(* Further properties of the router *)

\* the handler invocation of r being awaited or last settled
LastCall(r) == calls[r][Len(calls[r])]

\* C23: when the chain has run to the handler for a valid input and the
\* handler's result conforms to the output schema, the one response is status
\* 200 with the handler's result as its body; and a response with status 200
\* is sent on that path only: by the dispatch step, after the whole chain has
\* run, for a valid input, a handler that is a function and a result that
\* conforms to the output schema.
C23_SuccessIs200WithResult ==
  \A r \in Reqs :
    /\ (calls[r] # <<>> /\ LastCall(r).outcome.kind = "fulfilled"
          /\ Check(DefOf(r).output, LastCall(r).outcome.value)) =>
         responses[r] = <<Response(200, LastCall(r).outcome.value, "handler")>>
    /\ \A j \in 1..Len(responses[r]) :
         responses[r][j].status = 200 =>
           /\ responses[r][j].by = "handler"
           /\ FullChainRan(r)
           /\ Check(DefOf(r).input, InputOf(r))
           /\ handlers[req[r].route] = "function"
           /\ Len(calls[r]) = 1
           /\ calls[r][1].outcome = Fulfilled(responses[r][j].body)
           /\ Check(DefOf(r).output, responses[r][j].body)

\* a 200 on a route with middleware, the body being what the handler returned
C23_Witness ==
  \E r \in Reqs :
    /\ pc[r] = "done"
    /\ Len(trace[r]) >= 3
    /\ Len(calls[r]) = 1
    /\ calls[r][1].outcome.kind = "fulfilled"
    /\ DOMAIN calls[r][1].outcome.value = {"id", "secret"}
    /\ responses[r] = <<Response(200, calls[r][1].outcome.value, "handler")>>

NotAFunction(r) ==
  Live(r) /\ handlers[req[r].route] \notin {"absent", "function"}
DispatchRan(r) == SeqHas(trace[r], "handler")

\* C30 as stated: every request dispatched on a route whose handler entry is
\* there and is not a function is answered 501 {error: "Handler not a function"}.
C30_AnyNonFunction ==
  \A r \in Reqs :
    (NotAFunction(r) /\ DispatchRan(r)) =>
      responses[r] =
        <<Response(501, Obj1("error", Str(<<"Handler not a function">>)), "handler")>>

\* C30: a request that passes middleware and validation on a route whose
\* handler entry is truthy and not a function is answered 501 with the body
\* {error: "Handler not a function"}; when the entry is a falsy value such as
\* null the answer is 501 {error: "Not implemented"}; in both cases nothing is
\* invoked; and every 501 of the dispatch step has one of these two bodies.
C30_HandlerNotAFunction ==
  \A r \in Reqs :
    /\ NotAFunction(r) =>
         /\ calls[r] = <<>>
         /\ DispatchRan(r) =>
              /\ FullChainRan(r)
              /\ Check(DefOf(r).input, InputOf(r))
              /\ pc[r] = "done"
              /\ responses[r] =
                   <<Response(501,
                              Obj1("error",
                                   IF handlers[req[r].route] = "null"
                                     THEN Str(<<"Not implemented">>)
                                     ELSE Str(<<"Handler not a function">>)),
                              "handler")>>
    /\ \A j \in 1..Len(responses[r]) :
         (responses[r][j].by = "handler" /\ responses[r][j].status = 501) =>
           /\ responses[r][j].body \in
                {Obj1("error", Str(<<"Not implemented">>)),
                 Obj1("error", Str(<<"Handler not a function">>))}
           /\ handlers[req[r].route] # "function"

\* a truthy non-function handler behind a passed route: 501, not invoked
C30_Witness ==
  \E r \in Reqs :
    /\ pc[r] = "done"
    /\ handlers[req[r].route] = "notFunction"
    /\ responses[r][1].body = Obj1("error", Str(<<"Handler not a function">>))
    /\ calls[r] = <<>>

\* a null handler entry: 501 "Not implemented"
C30_WitnessNull ==
  \E r \in Reqs :
    /\ pc[r] = "done"
    /\ handlers[req[r].route] = "null"
    /\ responses[r][1].status = 501
    /\ responses[r][1].body = Obj1("error", Str(<<"Not implemented">>))

\* C25: in the input extracted from a request and in the input a handler is
\* invoked with, a params key is there only when the request has matched path
\* parameters and a query key only when it has a query string, and they hold
\* those; the body supplies neither.
C25_Provenance ==
  \A r \in Reqs :
    Live(r) =>
      /\ Has(InputOf(r), "params") =>
           (Keys(req[r].params) # {} /\ InputOf(r)["params"] = req[r].params)
      /\ Has(InputOf(r), "query") =>
           (Keys(req[r].query) # {} /\ InputOf(r)["query"] = req[r].query)
      /\ \A j \in 1..Len(calls[r]) :
           Has(calls[r][j].input, "params") => Keys(req[r].params) # {}

Falsy(config) == config \in {"false", "null", "0", ""}
\* the factory calls made for route i, and the middleware steps of its chain
FactoryCallsOf(i) == SelectSeq(factoryCalls, LAMBDA c : c.route = i)
MiddlewareSteps(i) ==
  SelectSeq(registered[CHOOSE k \in 1..Len(registered) : registered[k].route = i].chain,
            LAMBDA step : step.kind = "mw")

\* C28: for every route of a created router with a middleware map and for
\* every entry of it whose config is defined but falsy and whose name has a
\* registered factory, the factory was called with that config and the step
\* it returned is in the route's chain; of the declared entries whose name
\* has a factory, only those with the config undefined have no step; and a
\* request to the route runs the step made from the falsy config.
C28_FalsyConfigNotSkipped ==
  created =>
    /\ \A i \in Defined :
         LET mw == RouteTable[i].def.middleware IN
         (mw.present /\ options.middleware.present) =>
           \A k \in 1..Len(mw.entries) :
             LET e == mw.entries[k]
                 hasStep == \E j \in 1..Len(MiddlewareSteps(i)) :
                               /\ MiddlewareSteps(i)[j].name = e.name
                               /\ MiddlewareSteps(i)[j].config = e.config
                 called == \E j \in 1..Len(FactoryCallsOf(i)) :
                              /\ FactoryCallsOf(i)[j].name = e.name
                              /\ FactoryCallsOf(i)[j].config = e.config
             IN SeqHas(options.middleware.names, e.name) =>
                  /\ Falsy(e.config) => (hasStep /\ called)
                  /\ (~hasStep \/ ~called) => e.config = "undefined"
    /\ \A r \in Reqs :
         (Live(r) /\ options.middleware.present
            /\ SeqHas(options.middleware.names, "auth")
            /\ RouteTable[req[r].route].def.middleware
                  = MwMap(<<Mw("auth", "false")>>)
            /\ trace[r] # <<>>) =>
           trace[r][1] = "auth"

\* a request has gone through the step authMiddleware(false) and on to the
\* handler
C28_Witness ==
  \E r \in Reqs :
    /\ Live(r)
    /\ req[r].route = 10
    /\ \E j \in 1..Len(factoryCalls) :
         factoryCalls[j] = [route |-> 10, name |-> "auth", config |-> "false"]
    /\ trace[r] = <<"auth", "validation", "handler">>
    /\ Len(calls[r]) = 1

----------------------------------------------------------------------------
(* The handlers map changes after the router was created *)

RebindRoutes == {1, 9}
RebindRequests == UNION {RequestsFor(i) : i \in RebindRoutes}

\* The application assigns or deletes handlers[path][method] of the object it
\* gave to createTypedRouter.
ReplaceHandler ==
  /\ created
  /\ \E i \in RebindRoutes : \E h \in {"function", "absent"} \ {handlers[i]} :
       handlers' = [handlers EXCEPT ![i] = h]
  /\ UNCHANGED <<created, options, registered, factoryCalls,
                 req, pc, idx, trace, responses, calls, forwarded, log>>
  /\ UNCHANGED clientVars

RebindNext ==
  \/ CreateTypedRouter
  \/ ReplaceHandler
  \/ \E r \in Reqs : ArriveWith(r, RebindRequests)
  \/ \E r \in Reqs : AuthStep(r)
  \/ \E r \in Reqs : RateLimitStep(r)
  \/ \E r \in Reqs : ValidationMiddleware(r)
  \/ \E r \in Reqs : HandlerMiddleware(r)
  \/ \E r \in Reqs : HandlerSettles(r)
  \/ \E r \in Reqs : ErrorHandler(r)
  \/ \E r \in Reqs : HostFinalHandler(r)
  \/ \E r \in Reqs : Discard(r)
SpecRebind == Init /\ [][RebindNext]_vars

\* the handler the dispatch step of route i holds
Captured(i) == Last(ChainOf(i)).handler
\* how often factory(config) was called for the entry e of route i
TimesCalled(i, e) ==
  Cardinality({j \in 1..Len(factoryCalls) :
                 factoryCalls[j] = [route |-> i, name |-> e.name, config |-> e.config]})
\* the entries of route i's middleware map
Entries(i) ==
  LET mw == RouteTable[i].def.middleware
  IN {mw.entries[k] : k \in 1..Len(mw.entries)}

\* C29: the factories are called while createTypedRouter runs, once for each
\* (route, eligible middleware entry) and for nothing else, and each dispatch
\* step then holds the handler the handlers map had for its route; once the
\* router is created no step of a request and no later change of the handlers
\* map calls a factory or changes a registered chain; and every request
\* dispatched on a route is served by the handler captured at creation,
\* whatever the handlers map holds by then.
C29_BoundAtCreation ==
  /\ [][(~created /\ created') =>
          /\ \A i \in Defined : Captured(i)' = handlers'[i]
          /\ \A i \in Defined : \A e \in Entries(i) :
               TimesCalled(i, e)' =
                 IF /\ options'.middleware.present
                    /\ e.config # "undefined"
                    /\ SeqHas(options'.middleware.names, e.name)
                   THEN 1 ELSE 0
          /\ \A j \in 1..Len(factoryCalls') :
               \E e \in Entries(factoryCalls'[j].route) :
                 e.name = factoryCalls'[j].name]_vars
  /\ [][created => (factoryCalls' = factoryCalls /\ registered' = registered)]_vars
  /\ [](\A r \in Reqs :
          (Live(r) /\ DispatchRan(r)) =>
            /\ (calls[r] # <<>>) <=> (Captured(req[r].route) = "function")
            /\ Captured(req[r].route) = "absent" =>
                 responses[r] = <<Response(501, ErrorBody("Not implemented"), "handler")>>)

\* a request was served by the handler captured at creation although the
\* handlers map has no handler for its route any more
C29_Witness ==
  \E r \in Reqs :
    /\ pc[r] = "done"
    /\ handlers[req[r].route] = "absent"
    /\ Captured(req[r].route) = "function"
    /\ Len(calls[r]) = 1
    /\ responses[r][1].status = 200
    /\ factoryCalls # <<>>

----------------------------------------------------------------------------
(* Several requests in flight: their steps interleave at every await *)

ConcurrentSetups ==
  { Setup(AllFunctions, Options(NoFactories, FALSE, <<>>)),
    Setup(AllFunctions, Options(Factories(<<"auth", "rateLimit">>), TRUE, <<>>)) }
ConcurrentRequests ==
  { Request(3, Id1, EmptyObj, Undefined, "none"),
    Request(3, IdA, EmptyObj, Undefined, "none"),
    Request(4, Id1, EmptyObj, NameA, "none"),
    Request(10, EmptyObj, EmptyObj, Undefined, "none") }

ConcurrentNext ==
  \/ CreateTypedRouterWith(ConcurrentSetups)
  \/ \E r \in Flights : ArriveWith(r, ConcurrentRequests)
  \/ \E r \in Flights : AuthStep(r)
  \/ \E r \in Flights : ValidationMiddleware(r)
  \/ \E r \in Flights : HandlerMiddleware(r)
  \/ \E r \in Flights : HandlerSettles(r)
  \/ \E r \in Flights : ErrorHandler(r)
  \/ \E r \in Flights : HostFinalHandler(r)
  \/ \E r \in Flights : Discard(r)
SpecConcurrent == Init /\ [][ConcurrentNext]_vars

\* everything the router and its steps keep for the request r
Local(r) ==
  <<req[r], pc[r], idx[r], trace[r], responses[r], calls[r], forwarded[r], log[r]>>

\* C22: with several requests in flight, on one route or on several, and
\* their steps interleaved in any order, every handler invocation has the
\* decoded input and the request object of its own request; every response of
\* the dispatch step is made from the result of its own request's handler,
\* checked against the output schema of its own route (200 with that result
\* when it conforms, 500 when it does not); and a step taken for one request
\* changes nothing that is kept for another.
C22_Isolation ==
  /\ [](\A r \in Flights :
          /\ \A j \in 1..Len(calls[r]) :
               /\ calls[r][j].input = Decode(DefOf(r).input, InputOf(r))
               /\ calls[r][j].context =
                    [req[r] EXCEPT !.validatedInput = calls[r][j].input]
          /\ \A j \in 1..Len(responses[r]) :
               LET resp == responses[r][j] IN
               (resp.by = "handler" /\ resp.status # 501) =>
                 /\ Len(calls[r]) = 1
                 /\ LastCall(r).outcome.kind = "fulfilled"
                 /\ IF Check(DefOf(r).output, LastCall(r).outcome.value)
                      THEN resp.status = 200 /\ resp.body = LastCall(r).outcome.value
                      ELSE resp.status = 500 /\ resp.body = InternalServerError)
  /\ [][\A r \in Flights : \A q \in Flights \ {r} :
          Local(r)' # Local(r) => Local(q)' = Local(q)]_vars

\* two requests on routes with different output schemas, both past their
\* await: the same handler result was sent for one and refused for the other
C22_Witness ==
  \E r \in Flights : \E q \in Flights \ {r} :
    /\ req[r].route = 4 /\ req[q].route = 10
    /\ pc[r] = "done" /\ pc[q] = "done"
    /\ calls[r][1].outcome = Fulfilled(Obj1("id", Num(Chars_1)))
    /\ calls[q][1].outcome = Fulfilled(Obj1("id", Num(Chars_1)))
    /\ calls[r][1].input # calls[q][1].input
    /\ responses[r][1].status = 500
    /\ responses[q][1].status = 200

\* two requests on the same route with different path parameters, both
\* suspended in their handlers
C22_WitnessSameRoute ==
  \E r \in Flights : \E q \in Flights \ {r} :
    /\ req[r].route = 3 /\ req[q].route = 3
    /\ pc[r] = "awaiting" /\ pc[q] = "awaiting"
    /\ calls[r][1].input = Obj1("params", Id1)
    /\ calls[q][1].input = Obj1("params", IdA)

LiveRequests == ConcurrentRequests \cup RequestsFor(8)
LiveNext ==
  \/ CreateTypedRouter
  \/ \E r \in Reqs : ArriveWith(r, LiveRequests)
  \/ \E r \in Reqs : AuthStep(r)
  \/ \E r \in Reqs : ValidationMiddleware(r)
  \/ \E r \in Reqs : HandlerMiddleware(r)
  \/ \E r \in Reqs : HandlerSettles(r)
  \/ \E r \in Reqs : ErrorHandler(r)
  \/ \E r \in Reqs : HostFinalHandler(r)
  \/ \E r \in Reqs : Discard(r)

\* Express runs each step of a chain as soon as the step before it calls
\* next; the handler's promise is assumed to settle.
StepsRun ==
  \A r \in Reqs :
    /\ WF_vars(AuthStep(r))
    /\ WF_vars(ValidationMiddleware(r))
    /\ WF_vars(HandlerMiddleware(r))
HandlersSettle == \A r \in Reqs : WF_vars(HandlerSettles(r))
SpecLive == Init /\ [][LiveNext]_vars /\ StepsRun /\ HandlersSettle

\* C24: a request whose chain has started is eventually answered or
\* forwarded to the error path, given that the steps run and the handler's
\* promise settles; a response of the dispatch step other than 501 is sent
\* only after the handler's promise has been fulfilled; and while the handler
\* is awaited no response has been sent and nothing but the settling of the
\* promise changes what is kept for the request (no timeout, no retry).
C24_Liveness ==
  /\ \A r \in Reqs :
       (pc[r] \in {"chain", "awaiting"}) ~> (pc[r] \in {"done", "error"})
  /\ [](\A r \in Reqs :
          /\ \A j \in 1..Len(responses[r]) :
               (responses[r][j].by = "handler" /\ responses[r][j].status # 501) =>
                 (calls[r] # <<>> /\ LastCall(r).outcome.kind = "fulfilled")
          /\ pc[r] = "awaiting" =>
               /\ responses[r] = <<>>
               /\ LastCall(r).outcome = Pending
               /\ ~StepEnabled(r))
  /\ [][\A r \in Reqs :
          (pc[r] = "awaiting" /\ Local(r)' # Local(r)) =>
            /\ LastCall(r)'.outcome # Pending
            /\ Len(calls'[r]) = Len(calls[r])]_vars

\* a request that went through a middleware step and the validation was
\* answered after its handler was awaited
C24_Witness ==
  \E r \in Reqs :
    /\ pc[r] = "done"
    /\ trace[r] = <<"auth", "validation", "handler">>
    /\ Len(calls[r]) = 1
    /\ calls[r][1].outcome.kind = "fulfilled"
    /\ Len(responses[r]) = 1

\* a request suspended in its handler: nothing sent, nothing else to run
C24_WitnessPending ==
  \E r \in Reqs :
    /\ pc[r] = "awaiting"
    /\ calls[r][1].outcome = Pending
    /\ responses[r] = <<>>

----------------------------------------------------------------------------
(* Further properties of the client *)

NonGet == {"post", "put", "patch", "delete"}
\* the input of the call r is an object with a query key
HasQuery(r) == IsObject(call[r].input) /\ "query" \in DOMAIN call[r].input
\* the body on the wire carries a query key
BodyHasQuery(r) ==
  /\ wire[r].body # Undefined
  /\ IsObject(wire[r].body.json)
  /\ "query" \in DOMAIN wire[r].body.json

\* C26 as stated: the request of a call whose method is not get has no query
\* string, and the query sub-object of its input is in no part of it.
C26_QueryNotTransmitted ==
  \A r \in Reqs :
    (Issued(r, NonGet) /\ HasQuery(r)) =>
      /\ IndexOf(wire[r].url, <<"?">>) = 0
      /\ ~BodyHasQuery(r)

\* C26: the URL of a call whose method is not get has no query string, also
\* when the input has a query key; the query sub-object of such an input is
\* transmitted in one case only, as the query key of the JSON body, when the
\* method is post, put or patch and the input has neither a body key nor a
\* params key, the whole input being the body then.
C26_QueryOnlyInWholeInputBody ==
  \A r \in Reqs :
    Issued(r, NonGet) =>
      /\ IndexOf(wire[r].url, <<"?">>) = 0
      /\ HasQuery(r) =>
           IF /\ call[r].method \in {"post", "put", "patch"}
              /\ DOMAIN call[r].input \cap {"body", "params"} = {}
             THEN /\ wire[r].body = [json |-> Json(call[r].input)]
                  /\ wire[r].body.json["query"] = Json(call[r].input["query"])
             ELSE ~BodyHasQuery(r)

\* a post whose input has query and body sent the body alone, to a URL
\* without query string
C26_Witness ==
  \E r \in Reqs :
    /\ Issued(r, {"post"})
    /\ DOMAIN call[r].input = {"query", "body"}
    /\ wire[r].body = [json |-> NameA]
    /\ wire[r].url = Origin \o P_users

\* a post whose input is {query} alone sent it as the body
C26_WitnessWhole ==
  \E r \in Reqs :
    /\ Issued(r, {"post"})
    /\ DOMAIN call[r].input = {"query"}
    /\ wire[r].body = [json |-> Obj1("query", QA)]

\* C27: the URL of every request starts with the configured baseUrl, and
\* what follows it is the route path with nothing but placeholders rewritten
\* (and, for get, the query string).
C27_BaseUrlUnchanged ==
  \A r \in Reqs :
    (call[r] # NoCall /\ wire[r] # NoWire) =>
      /\ StartsAt(wire[r].url, client.baseUrl, 1)
      /\ InputHas(r, "params") =>
           \E k \in 0..Len(call[r].path) :
             StartsAt(wire[r].url, client.baseUrl \o SubSeq(call[r].path, 1, k), 1)
               /\ (k = Len(call[r].path) \/ call[r].path[k + 1] = ":")

----------------------------------------------------------------------------
(* End to end: a client call, the router's chain, and the call's settling *)

EndToEndSetups ==
  { Setup(AllFunctions, Options(NoFactories, FALSE, <<>>)),
    Setup(AllFunctions, Options(Factories(<<"auth", "rateLimit">>), TRUE, <<>>)) }
EndToEndClients ==
  { <<Origin, OptionsArg(NoHeaders, FALSE, "unset")>>,
    <<Origin, OptionsArg(StaticHeaders(Obj1("Authorization", S("token-123"))),
                         TRUE, "unset")>> }
EndToEndCalls ==
  { Call(1, "get", P_users, EmptyObj),
    Call(2, "post", P_users, ObjectAssign(NameA, EmailE)),
    Call(3, "get", P_user, Obj1("params", Id1)),
    Call(8, "get", P_profile, Undefined) }

\* the reason phrase the host sends with a status
StatusText(status) ==
  CASE status = 200 -> "OK"
    [] status = 400 -> "Bad Request"
    [] status = 401 -> "Unauthorized"
    [] status = 429 -> "Too Many Requests"
    [] status = 500 -> "Internal Server Error"
    [] status = 501 -> "Not Implemented"
\* the response as fetch resolves with it: res.json(body) is JSON text, the
\* host's error page is not
WireResponse(resp) ==
  HttpResponse(resp.status, StatusText(resp.status),
               IF resp.by = "host" THEN NotJson ELSE Json(resp.body))

\* the response the server sent reaches the client: fetch resolves with it
Deliver(r) ==
  /\ cpc[r] = "fetch"
  /\ pc[r] = "done"
  /\ Resolve(r, WireResponse(responses[r][1]))
  /\ UNCHANGED <<serverVars, client, call, wire, headerCalls>>

\* the call has settled and the request is over on both sides
Finish(r) ==
  /\ cpc[r] \in {"returned", "rejected"}
  /\ pc[r] = "done"
  /\ req' = [req EXCEPT ![r] = NoReq]
  /\ pc' = [pc EXCEPT ![r] = "idle"]
  /\ idx' = [idx EXCEPT ![r] = 0]
  /\ trace' = [trace EXCEPT ![r] = <<>>]
  /\ responses' = [responses EXCEPT ![r] = <<>>]
  /\ calls' = [calls EXCEPT ![r] = <<>>]
  /\ forwarded' = [forwarded EXCEPT ![r] = <<>>]
  /\ log' = [log EXCEPT ![r] = <<>>]
  /\ call' = [call EXCEPT ![r] = NoCall]
  /\ wire' = [wire EXCEPT ![r] = NoWire]
  /\ cpc' = [cpc EXCEPT ![r] = "idle"]
  /\ events' = [events EXCEPT ![r] = <<>>]
  /\ response' = [response EXCEPT ![r] = NoResponse]
  /\ UNCHANGED <<created, handlers, options, registered, factoryCalls,
                 client, headerCalls>>

EndToEndNext ==
  \/ CreateTypedRouterWith(EndToEndSetups)
  \/ CreateTypedClientWith(EndToEndClients)
  \/ \E r \in Reqs : ClientCallWith(r, EndToEndCalls)
  \/ \E r \in Reqs : Receive(r)
  \/ \E r \in Reqs : AuthStep(r)
  \/ \E r \in Reqs : ValidationMiddleware(r)
  \/ \E r \in Reqs : HandlerMiddleware(r)
  \/ \E r \in Reqs : HandlerSettles(r)
  \/ \E r \in Reqs : ErrorHandler(r)
  \/ \E r \in Reqs : HostFinalHandler(r)
  \/ \E r \in Reqs : Deliver(r)
  \/ \E r \in Reqs : Finish(r)
SpecEndToEnd == Init /\ [][EndToEndNext]_vars

\* the handler of r threw, and the call behind r has settled
HandlerThrew(r) ==
  /\ calls[r] # <<>>
  /\ LastCall(r).outcome.kind = "rejected"
  /\ cpc[r] \in {"returned", "rejected"}
\* the error the call of r was rejected with
Rejection(r) == Last(events[r]).x
Thrown(r) == LastCall(r).outcome.value

C21_WitnessNoErrorHandler ==
  \E r \in Reqs :
    /\ HandlerThrew(r)
    /\ ~options.errorHandler
    /\ Rejection(r).message = S("Internal Server Error")
    /\ Last(trace[r]) = "host"

====
